---- MODULE Spec2Model ----
(***************************************************************************)
(* Model of the online climate data service of weather-vibes               *)
(* (server/app/services/data_service.py): the location index, the lazy     *)
(* per-location parameter cache, nearest-location lookup, the temporal     *)
(* aggregation policy of get_value_at_point and the radius query.          *)
(*                                                                         *)
(* Encoding.  A date key "YYYYMMDD" of a raw file is the integer YYYYMMDD   *)
(* and datetime.strptime is computed from its digits.  A datetime is a     *)
(* record [ok, year, month, day]; Python's None datetime is NoneDt.  A     *)
(* float is an exact rational [kind, num, den] in lowest terms, so         *)
(* np.mean is the exact arithmetic mean (floating-point rounding is not    *)
(* modelled).  An insertion-ordered dict that the code iterates            *)
(* (locations_cache) is a sequence; a dict that it only looks up or        *)
(* averages is a function.                                                 *)
(***************************************************************************)
EXTENDS Integers, Sequences, FiniteSets, TLC

VARIABLES
    disk,             \* outputs/: sequence of location directories and their raw files
    locations_cache,  \* DataService.locations_cache, in insertion order
    cache,            \* DataService.cache: location name -> merged store
    attempted,        \* history: the locations _load_location_data was called for
    call,             \* the last operation invoked and its arguments
    ret,              \* what that operation returned
    vibes,            \* VibeEngine.vibes: vibe id -> configuration
    scored,           \* the last scoring call, its arguments and its outcome
    answered,         \* the last request to a route and the response to it
    pipeline,         \* the run of the offline aggregation script
    threads           \* requests in _load_location_data at the same time

vars == <<disk, locations_cache, cache, attempted, call, ret,
          vibes, scored, answered, pipeline, threads>>

\* the state outside the data service
outside_service == <<vibes, scored, answered, pipeline, threads>>

----------------------------------------------------------------------------
(* Bounds of the model *)

\* most daily entries of the series drawn for the aggregation policy
MaxLen == 3
\* most raw files of the location drawn for the merge
MaxFiles == 2
\* most readings in one raw file drawn for the merge
MaxEntries == 2
\* most ranges taken from one iter_year_chunks generator
MaxChunks == 5

----------------------------------------------------------------------------
(* Python values *)

\* None in an Optional[int] argument (month, year)
NoneInt == 0

\* None in an Optional[datetime] argument
NoneDt == [ok |-> FALSE, year |-> 0, month |-> 0, day |-> 0]

\* None returned in place of a float
NoneVal == [kind |-> "None", num |-> 0, den |-> 1]

\* None returned in place of a location name
NoneName == "None"

\* None returned in place of a loaded store
NoneStore == [kind |-> "None"]

\* the fill value NASA POWER writes for a missing reading
FILL_VALUE == -999

EmptyMap == [k \in {} |-> 0]

\* no scoring call yet
NoScore ==
    [op |-> "none", vibe_id |-> "", parameter_values |-> EmptyMap,
     args |-> <<>>, outcome |-> "none", error |-> "", value |-> NoneVal,
     read |-> {}]

\* no request to a route yet
NoAnswer == [route |-> "none"]

\* the aggregation script is not running
NoPipeline == [pc |-> "idle"]

\* no request is inside _load_location_data
NoThreads == <<>>

\* nothing but the data service has run
OutsideServiceIdle ==
    /\ vibes = EmptyMap
    /\ scored = NoScore
    /\ answered = NoAnswer
    /\ pipeline = NoPipeline
    /\ threads = NoThreads

Abs(n) == IF n < 0 THEN 0 - n ELSE n

RECURSIVE Gcd(_, _)
Gcd(a, b) == IF b = 0 THEN a ELSE Gcd(b, a % b)

\* the float num/den
Float(num, den) ==
    LET g == Gcd(Abs(num), den)
    IN  [kind |-> "float", num |-> num \div g, den |-> den \div g]

RECURSIVE SumOver(_, _)
SumOver(f, S) ==
    IF S = {} THEN 0
    ELSE LET k == CHOOSE x \in S : TRUE
         IN  f[k] + SumOver(f, S \ {k})

\* np.mean of the values daily_data holds at the keys in S (S non-empty)
np_mean(daily_data, S) == Float(SumOver(daily_data, S), Cardinality(S))

----------------------------------------------------------------------------
(* datetime *)

IsLeap(y) == (y % 4 = 0 /\ y % 100 # 0) \/ y % 400 = 0

DaysInMonth(y, m) ==
    IF m \in {4, 6, 9, 11} THEN 30
    ELSE IF m = 2 THEN (IF IsLeap(y) THEN 29 ELSE 28)
    ELSE 31

\* datetime.strptime(date_str, "%Y%m%d"): ok = FALSE stands for ValueError
strptime(date_str) ==
    LET y == date_str \div 10000
        m == (date_str \div 100) % 100
        d == date_str % 100
    IN  IF y \in 1..9999 /\ m \in 1..12 /\ d \in 1..DaysInMonth(y, m)
        THEN [ok |-> TRUE, year |-> y, month |-> m, day |-> d]
        ELSE NoneDt

\* a < b on datetimes
DtLess(a, b) ==
    \/ a.year < b.year
    \/ a.year = b.year /\ a.month < b.month
    \/ a.year = b.year /\ a.month = b.month /\ a.day < b.day

DtLeq(a, b) == ~DtLess(b, a)

\* `if start_date` on an Optional[datetime]: a datetime is always truthy
Given(dt) == dt.ok

----------------------------------------------------------------------------
(* Raw files *)

\* a file that json.load rejects
BadJson ==
    [json |-> FALSE, geometry |-> FALSE, coords |-> <<0, 0>>,
     has_parameter |-> FALSE, parameter |-> EmptyMap]

\* a JSON object with geometry.coordinates = [lon, lat] but no properties.parameter
NoParameterFile(lat, lon) ==
    [json |-> TRUE, geometry |-> TRUE, coords |-> <<lon, lat>>,
     has_parameter |-> FALSE, parameter |-> EmptyMap]

\* a JSON object with properties.parameter but no geometry.coordinates
NoGeometryFile(parameter) ==
    [json |-> TRUE, geometry |-> FALSE, coords |-> <<0, 0>>,
     has_parameter |-> TRUE, parameter |-> parameter]

\* a well-formed download chunk
PointFile(lat, lon, parameter) ==
    [json |-> TRUE, geometry |-> TRUE, coords |-> <<lon, lat>>,
     has_parameter |-> TRUE, parameter |-> parameter]

\* the file at position path[2] of the raw/ directory of directory path[1]
ReadFile(dk, path) == dk[path[1]].files[path[2]]

----------------------------------------------------------------------------
(* DataService: the location index *)

\* locations_cache[location_name] = entry, on an insertion-ordered dict
DictSet(lc, entry) ==
    IF \E i \in 1..Len(lc) : lc[i].name = entry.name
    THEN [i \in 1..Len(lc) |-> IF lc[i].name = entry.name THEN entry ELSE lc[i]]
    ELSE Append(lc, entry)

\* the loop of _load_available_locations from directory i on; an exception
\* (unparsable first file, no geometry.coordinates) leaves the loop
RECURSIVE IndexFrom(_, _, _)
IndexFrom(dk, i, lc) ==
    IF i > Len(dk) THEN lc
    ELSE LET location_dir == dk[i]
         IN  IF location_dir.point /\ location_dir.has_raw
                /\ Len(location_dir.files) > 0
             THEN LET data == location_dir.files[1]
                  IN  IF data.json /\ data.geometry
                      THEN IndexFrom(dk, i + 1,
                             DictSet(lc,
                               [name  |-> location_dir.name,
                                lat   |-> data.coords[2],
                                lon   |-> data.coords[1],
                                files |-> [j \in 1..Len(location_dir.files) |-> <<i, j>>]]))
                      ELSE lc
             ELSE IndexFrom(dk, i + 1, lc)

_load_available_locations(dk) == IndexFrom(dk, 1, <<>>)

Names(lc) == {lc[i].name : i \in 1..Len(lc)}

\* locations_cache[location_name]
Lookup(lc, location_name) ==
    lc[CHOOSE i \in 1..Len(lc) : lc[i].name = location_name]

\* (lat - loc_lat) ** 2 + (lon - loc_lon) ** 2; np.sqrt is monotone, so the
\* code's comparisons of distances are comparisons of these squares
Distance2(lat, lon, loc_lat, loc_lon) ==
    (lat - loc_lat) * (lat - loc_lat) + (lon - loc_lon) * (lon - loc_lon)

\* CloserThan with <= for <: a later location at the same distance is taken
CloserOrEqual(distance2, min_distance2, nearest_location) ==
    nearest_location = NoneName \/ distance2 <= min_distance2

\* `distance < min_distance`; min_distance is inf until a location is taken
CloserThan(distance2, min_distance2, nearest_location) ==
    nearest_location = NoneName \/ distance2 < min_distance2

\* the loop of _find_nearest_location from entry i on
RECURSIVE NearestFrom(_, _, _, _, _, _)
NearestFrom(lc, i, lat, lon, min_distance2, nearest_location) ==
    IF i > Len(lc) THEN nearest_location
    ELSE LET distance2 == Distance2(lat, lon, lc[i].lat, lc[i].lon)
         IN  IF CloserThan(distance2, min_distance2, nearest_location)
             THEN NearestFrom(lc, i + 1, lat, lon, distance2, lc[i].name)
             ELSE NearestFrom(lc, i + 1, lat, lon, min_distance2, nearest_location)

_find_nearest_location(self, lat, lon) ==
    IF Len(self.locations_cache) = 0 THEN NoneName
    ELSE NearestFrom(self.locations_cache, 1, lat, lon, 0, NoneName)

----------------------------------------------------------------------------
(* DataService: the parameter loader *)

\* DictUpdate the other way round: a date already present keeps its value
DictUpdateKeepingFirst(d, e) ==
    [k \in DOMAIN d \cup DOMAIN e |-> IF k \in DOMAIN d THEN d[k] ELSE e[k]]

\* d.update(e)
DictUpdate(d, e) ==
    [k \in DOMAIN d \cup DOMAIN e |-> IF k \in DOMAIN e THEN e[k] ELSE d[k]]

\* MergeParameters assigning the file's series instead of updating the one
\* already merged
MergeParametersReplacing(all_parameters, parameters) ==
    [p \in DOMAIN all_parameters \cup DOMAIN parameters |->
        IF p \in DOMAIN parameters THEN parameters[p] ELSE all_parameters[p]]

\* the merge of one file's properties.parameter into all_data["parameters"]
MergeParameters(all_parameters, parameters) ==
    [p \in DOMAIN all_parameters \cup DOMAIN parameters |->
        IF p \in DOMAIN parameters
        THEN DictUpdate(IF p \in DOMAIN all_parameters
                        THEN all_parameters[p] ELSE EmptyMap,
                        parameters[p])
        ELSE all_parameters[p]]

\* LoadFrom passing over a file it cannot read instead of giving up
RECURSIVE LoadFromSkippingBad(_, _, _, _)
LoadFromSkippingBad(dk, files, j, all_parameters) ==
    IF j > Len(files)
    THEN [ok |-> TRUE, parameters |-> all_parameters, opened |-> Len(files)]
    ELSE LET data == ReadFile(dk, files[j])
         IN  LoadFromSkippingBad(dk, files, j + 1,
                 IF data.json /\ data.has_parameter
                 THEN MergeParameters(all_parameters, data.parameter)
                 ELSE all_parameters)

\* the loop over location_data["files"] from file j on: the merged parameters
\* and the number of files opened; ok = FALSE when json.load or
\* data["properties"]["parameter"] raised
RECURSIVE LoadFrom(_, _, _, _)
LoadFrom(dk, files, j, all_parameters) ==
    IF j > Len(files)
    THEN [ok |-> TRUE, parameters |-> all_parameters, opened |-> Len(files)]
    ELSE LET data == ReadFile(dk, files[j])
         IN  IF data.json /\ data.has_parameter
             THEN LoadFrom(dk, files, j + 1,
                           MergeParameters(all_parameters, data.parameter))
             ELSE [ok |-> FALSE, parameters |-> EmptyMap, opened |-> j]

\* what a successful load puts in self.cache
CachePut(ch, location_name, all_data) ==
    [k \in DOMAIN ch \cup {location_name} |->
        IF k = location_name THEN all_data ELSE ch[k]]

\* _load_location_data without the look into self.cache
_load_location_data_uncached(self, location_name) ==
    IF location_name \notin Names(self.locations_cache)
    THEN [ret |-> NoneStore, cache |-> self.cache, opened |-> 0]
    ELSE LET location_data == Lookup(self.locations_cache, location_name)
             loaded == LoadFrom(self.disk, location_data.files, 1, EmptyMap)
             all_data == [kind       |-> "dict",
                          parameters |-> loaded.parameters,
                          lat        |-> location_data.lat,
                          lon        |-> location_data.lon]
         IN  IF loaded.ok
             THEN [ret    |-> all_data,
                   cache  |-> CachePut(self.cache, location_name, all_data),
                   opened |-> loaded.opened]
             ELSE [ret |-> NoneStore, cache |-> self.cache, opened |-> loaded.opened]

\* the value returned, the cache afterwards and the number of files opened
_load_location_data(self, location_name) ==
    IF location_name \notin Names(self.locations_cache)
    THEN [ret |-> NoneStore, cache |-> self.cache, opened |-> 0]
    ELSE IF location_name \in DOMAIN self.cache
    THEN [ret |-> self.cache[location_name], cache |-> self.cache, opened |-> 0]
    ELSE LET location_data == Lookup(self.locations_cache, location_name)
             loaded == LoadFrom(self.disk, location_data.files, 1, EmptyMap)
             all_data == [kind       |-> "dict",
                          parameters |-> loaded.parameters,
                          lat        |-> location_data.lat,
                          lon        |-> location_data.lon]
         IN  IF loaded.ok
             THEN [ret    |-> all_data,
                   cache  |-> CachePut(self.cache, location_name, all_data),
                   opened |-> loaded.opened]
             ELSE [ret |-> NoneStore, cache |-> self.cache, opened |-> loaded.opened]

----------------------------------------------------------------------------
(* DataService: temporal aggregation *)

\* MonthlyKeys with the year filter forgotten: every year of the month
MonthlyKeysAnyYear(daily_data, month, year, start_date, end_date) ==
    {date_str \in DOMAIN daily_data :
        LET date_obj == strptime(date_str)
        IN  /\ date_obj.ok
            /\ date_obj.month = month
            /\ ~(Given(start_date) /\ DtLess(date_obj, start_date))
            /\ ~(Given(end_date) /\ DtLess(end_date, date_obj))}

\* the keys whose values _aggregate_monthly appends; a key that does not
\* parse is skipped by the bare except
MonthlyKeys(daily_data, month, year, start_date, end_date) ==
    {date_str \in DOMAIN daily_data :
        LET date_obj == strptime(date_str)
        IN  /\ date_obj.ok
            /\ date_obj.month = month
            /\ ~(year # NoneInt /\ date_obj.year # year)
            /\ ~(Given(start_date) /\ DtLess(date_obj, start_date))
            /\ ~(Given(end_date) /\ DtLess(end_date, date_obj))}

\* _aggregate_monthly averaging an empty selection to 0.0 instead of None
_aggregate_monthly_zero(daily_data, month, year, start_date, end_date) ==
    LET values == MonthlyKeys(daily_data, month, year, start_date, end_date)
    IN  IF values = {} THEN Float(0, 1) ELSE np_mean(daily_data, values)

_aggregate_monthly(daily_data, month, year, start_date, end_date) ==
    LET values == MonthlyKeys(daily_data, month, year, start_date, end_date)
    IN  IF values = {} THEN NoneVal ELSE np_mean(daily_data, values)

\* DateRangeKeys with the bounds excluded: `<` for `<=`
DateRangeKeysExclusive(daily_data, start_date, end_date) ==
    {date_str \in DOMAIN daily_data :
        LET date_obj == strptime(date_str)
        IN  /\ date_obj.ok
            /\ IF Given(start_date) /\ Given(end_date)
               THEN DtLess(start_date, date_obj) /\ DtLess(date_obj, end_date)
               ELSE IF Given(start_date) THEN DtLess(start_date, date_obj)
               ELSE IF Given(end_date) THEN DtLess(date_obj, end_date)
               ELSE TRUE}

\* the keys whose values _aggregate_date_range appends
DateRangeKeys(daily_data, start_date, end_date) ==
    {date_str \in DOMAIN daily_data :
        LET date_obj == strptime(date_str)
        IN  /\ date_obj.ok
            /\ IF Given(start_date) /\ Given(end_date)
               THEN DtLeq(start_date, date_obj) /\ DtLeq(date_obj, end_date)
               ELSE IF Given(start_date) THEN DtLeq(start_date, date_obj)
               ELSE IF Given(end_date) THEN DtLeq(date_obj, end_date)
               ELSE TRUE}

_aggregate_date_range(daily_data, start_date, end_date) ==
    LET values == DateRangeKeys(daily_data, start_date, end_date)
    IN  IF values = {} THEN NoneVal ELSE np_mean(daily_data, values)

\* np.mean(values) if values else None, over list(daily_data.values())
OverallAverage(daily_data) ==
    IF DOMAIN daily_data = {} THEN NoneVal
    ELSE np_mean(daily_data, DOMAIN daily_data)

\* min_date and max_date of the keys; both None when the series is empty or a
\* key does not parse (the except branch)
AvailableRange(daily_data) ==
    LET keys == DOMAIN daily_data
    IN  IF keys = {} \/ \E k \in keys : ~strptime(k).ok
        THEN [min_date |-> NoneDt, max_date |-> NoneDt]
        ELSE LET all_dates == {strptime(k) : k \in keys}
             IN  [min_date |-> CHOOSE d \in all_dates :
                                  \A e \in all_dates : DtLeq(d, e),
                  max_date |-> CHOOSE d \in all_dates :
                                  \A e \in all_dates : DtLeq(e, d)]

\* EffectiveYear with the fallback forgotten: the requested year is kept
EffectiveYearKept(year, min_date, max_date) == year

\* the year filter _aggregate_monthly gets: dropped when the requested year
\* is outside the years of the data
EffectiveYear(year, min_date, max_date) ==
    IF Given(min_date) /\ Given(max_date) /\ year # NoneInt
       /\ (year < min_date.year \/ year > max_date.year)
    THEN NoneInt
    ELSE year

\* Clamp with the clamping forgotten: the bound is used as requested
ClampSkipped(bound, min_date, max_date) == bound

\* one requested bound after clamping to [min_date, max_date]
Clamp(bound, min_date, max_date) ==
    LET low == IF Given(min_date) /\ Given(bound) /\ DtLess(bound, min_date)
               THEN min_date ELSE bound
    IN  IF Given(max_date) /\ Given(low) /\ DtLess(max_date, low)
        THEN max_date ELSE low

\* RangeAggregate with the fallback forgotten: an inverted range is filtered
RangeAggregateNoFallback(daily_data, start_date, end_date, min_date, max_date) ==
    _aggregate_date_range(daily_data,
                          Clamp(start_date, min_date, max_date),
                          Clamp(end_date, min_date, max_date))

\* the date-range branch
RangeAggregate(daily_data, start_date, end_date, min_date, max_date) ==
    LET clamped_start == Clamp(start_date, min_date, max_date)
        clamped_end == Clamp(end_date, min_date, max_date)
    IN  IF Given(clamped_start) /\ Given(clamped_end)
           /\ DtLess(clamped_end, clamped_start)
        THEN OverallAverage(daily_data)
        ELSE _aggregate_date_range(daily_data, clamped_start, clamped_end)

\* Aggregate with the requested range handed on to _aggregate_monthly, which
\* accepts one
AggregatePassingRange(daily_data, month, year, start_date, end_date) ==
    LET range == AvailableRange(daily_data)
    IN  IF month # NoneInt
        THEN _aggregate_monthly(daily_data, month,
                 EffectiveYear(year, range.min_date, range.max_date),
                 start_date, end_date)
        ELSE IF Given(start_date) \/ Given(end_date)
        THEN RangeAggregate(daily_data, start_date, end_date,
                            range.min_date, range.max_date)
        ELSE OverallAverage(daily_data)

\* the choice among monthly, date-range and overall aggregation
Aggregate(daily_data, month, year, start_date, end_date) ==
    LET range == AvailableRange(daily_data)
    IN  IF month # NoneInt
        THEN _aggregate_monthly(daily_data, month,
                 EffectiveYear(year, range.min_date, range.max_date),
                 NoneDt, NoneDt)
        ELSE IF Given(start_date) \/ Given(end_date)
        THEN RangeAggregate(daily_data, start_date, end_date,
                            range.min_date, range.max_date)
        ELSE OverallAverage(daily_data)

\* the value returned, the cache afterwards and the number of files opened
get_value_at_point(self, parameter_id, lat, lon, month, year, start_date, end_date) ==
    LET location_name == _find_nearest_location(self, lat, lon)
    IN  IF location_name = NoneName
        THEN [ret |-> NoneVal, cache |-> self.cache, opened |-> 0]
        ELSE LET loaded == _load_location_data(self, location_name)
                 location_data == loaded.ret
             IN  IF location_data = NoneStore
                 THEN [ret |-> NoneVal, cache |-> loaded.cache,
                       opened |-> loaded.opened]
                 ELSE IF parameter_id \notin DOMAIN location_data.parameters
                 THEN [ret |-> NoneVal, cache |-> loaded.cache,
                       opened |-> loaded.opened]
                 ELSE [ret    |-> Aggregate(location_data.parameters[parameter_id],
                                            month, year, start_date, end_date),
                       cache  |-> loaded.cache,
                       opened |-> loaded.opened]

----------------------------------------------------------------------------
(* DataService: the radius query *)

\* WithinRadius leaving out a location exactly radius_km away
WithinRadiusExclusive(distance2, radius_km) ==
    distance2 * 111 * 111 < radius_km * radius_km

\* distance <= radius_km / 111.0, on the squares
WithinRadius(distance2, radius_km) ==
    distance2 * 111 * 111 <= radius_km * radius_km

\* the loop of get_values_in_radius from entry i on; each in-radius location
\* is looked up again by get_value_at_point, which may load and cache it
RECURSIVE RadiusFrom(_, _, _, _, _, _, _, _, _, _, _)
RadiusFrom(self, i, results, opened, parameter_id, center_lat, center_lon, radius_km, month, year, range) ==
    IF i > Len(self.locations_cache)
    THEN [ret |-> results, cache |-> self.cache, opened |-> opened]
    ELSE LET location_info == self.locations_cache[i]
             loc_lat == location_info.lat
             loc_lon == location_info.lon
         IN  IF WithinRadius(Distance2(center_lat, center_lon, loc_lat, loc_lon),
                             radius_km)
             THEN LET got == get_value_at_point(self, parameter_id, loc_lat, loc_lon,
                                                month, year, range[1], range[2])
                      after == [self EXCEPT !.cache = got.cache]
                  IN  RadiusFrom(after, i + 1,
                          IF got.ret # NoneVal
                          THEN Append(results, <<loc_lat, loc_lon, got.ret>>)
                          ELSE results,
                          opened + got.opened,
                          parameter_id, center_lat, center_lon, radius_km,
                          month, year, range)
             ELSE RadiusFrom(self, i + 1, results, opened, parameter_id,
                             center_lat, center_lon, radius_km, month, year, range)

\* resolution_km is accepted and never read
get_values_in_radius(self, parameter_id, center_lat, center_lon, radius_km, month, resolution_km, year, start_date, end_date) ==
    RadiusFrom(self, 1, <<>>, 0, parameter_id, center_lat, center_lon,
               radius_km, month, year, <<start_date, end_date>>)

----------------------------------------------------------------------------
(* Floats of the scoring service *)

\* the float of an integer
FInt(n) == Float(n, 1)

FAdd(a, b) == Float(a.num * b.den + b.num * a.den, a.den * b.den)

FSub(a, b) == Float(a.num * b.den - b.num * a.den, a.den * b.den)

FMul(a, b) == Float(a.num * b.num, a.den * b.den)

\* a / b for b # 0
FDiv(a, b) ==
    IF b.num > 0
    THEN Float(a.num * b.den, a.den * b.num)
    ELSE Float(0 - a.num * b.den, a.den * (0 - b.num))

FLess(a, b) == a.num * b.den < b.num * a.den

FLeq(a, b) == a.num * b.den <= b.num * a.den

\* np.clip(x, lo, hi)
np_clip(x, lo, hi) ==
    IF FLess(x, lo) THEN lo ELSE IF FLess(hi, x) THEN hi ELSE x

\* max(a, b) of Python
PyMax(a, b) == IF FLess(a, b) THEN b ELSE a

\* np.exp(x) for x <= 0, to four decimals at the exponents 0, -1/4, -1 and
\* -4; below -746 the double underflows and np.exp returns 0.0 exactly
np_exp(x) ==
    CASE x.num = 0 -> FInt(1)
      [] x = Float(-1, 4) -> Float(7788, 10000)
      [] x = Float(-1, 1) -> Float(3679, 10000)
      [] x = Float(-4, 1) -> Float(183, 10000)
      [] FLess(x, FInt(-746)) -> FInt(0)

----------------------------------------------------------------------------
(* scoring_service *)

score_low_is_better(value, min_val, max_val) ==
    IF max_val = min_val THEN FInt(100)
    ELSE LET normalized == np_clip(FDiv(FSub(value, min_val),
                                        FSub(max_val, min_val)),
                                   FInt(0), FInt(1))
         IN  FMul(FSub(FInt(1), normalized), FInt(100))

score_high_is_better(value, min_val, max_val) ==
    IF max_val = min_val THEN FInt(100)
    ELSE LET normalized == np_clip(FDiv(FSub(value, min_val),
                                        FSub(max_val, min_val)),
                                   FInt(0), FInt(1))
         IN  FMul(normalized, FInt(100))

\* score_optimal_range with the band taken without its two bounds
score_optimal_range_open(value, optimal_min, optimal_max, falloff_rate) ==
    IF FLess(optimal_min, value) /\ FLess(value, optimal_max) THEN FInt(100)
    ELSE LET distance == IF FLess(value, optimal_min)
                         THEN FSub(optimal_min, value)
                         ELSE FSub(value, optimal_max)
             range_width == FSub(optimal_max, optimal_min)
             ratio == FDiv(distance, FMul(range_width, falloff_rate))
         IN  PyMax(FInt(0),
                   FMul(FInt(100), np_exp(FSub(FInt(0), FMul(ratio, ratio)))))

\* for optimal_min < optimal_max and falloff_rate > 0
score_optimal_range(value, optimal_min, optimal_max, falloff_rate) ==
    IF FLeq(optimal_min, value) /\ FLeq(value, optimal_max) THEN FInt(100)
    ELSE LET distance == IF FLess(value, optimal_min)
                         THEN FSub(optimal_min, value)
                         ELSE FSub(value, optimal_max)
             range_width == FSub(optimal_max, optimal_min)
             ratio == FDiv(distance, FMul(range_width, falloff_rate))
         IN  PyMax(FInt(0),
                   FMul(FInt(100), np_exp(FSub(FInt(0), FMul(ratio, ratio)))))

\* sum(f[k] for k in S) of floats
RECURSIVE FSum(_, _)
FSum(f, S) ==
    IF S = {} THEN FInt(0)
    ELSE LET k == CHOOSE x \in S : TRUE
         IN  FAdd(f[k], FSum(f, S \ {k}))

\* parameter_scores and weights are dicts over the same parameter ids
calculate_weighted_score(parameter_scores, weights) ==
    LET total_weight == FSum(weights, DOMAIN weights)
        weighted_sum ==
            FSum([param_id \in DOMAIN weights |->
                     FMul(IF param_id \in DOMAIN parameter_scores
                          THEN parameter_scores[param_id] ELSE FInt(0),
                          weights[param_id])],
                 DOMAIN weights)
    IN  IF total_weight = FInt(0) THEN FInt(0)
        ELSE FDiv(weighted_sum, total_weight)

----------------------------------------------------------------------------
(* VibeEngine *)

\* a raise: the exception class and its message
Raise(class, message, read) ==
    [outcome |-> class, error |-> message, value |-> NoneVal, read |-> read]

\* a normal return
Return(value, read) ==
    [outcome |-> "return", error |-> "", value |-> value, read |-> read]

\* d with d[k] = v
DictPut(d, k, v) ==
    [j \in DOMAIN d \cup {k} |-> IF j = k THEN v ELSE d[j]]

\* the score of one configured parameter by its declared method; ok = FALSE
\* for a method that is none of the three
ScoreByMethod(param_config, value) ==
    IF param_config.scoring = "low_is_better"
    THEN [ok |-> TRUE,
          score |-> score_low_is_better(value, FInt(param_config.min),
                                        FInt(param_config.max))]
    ELSE IF param_config.scoring = "high_is_better"
    THEN [ok |-> TRUE,
          score |-> score_high_is_better(value, FInt(param_config.min),
                                         FInt(param_config.max))]
    ELSE IF param_config.scoring = "optimal_range"
    THEN [ok |-> TRUE,
          score |-> score_optimal_range(value, FInt(param_config.optimal_min),
                        FInt(param_config.optimal_max),
                        IF param_config.falloff_rate = NoneInt
                        THEN FInt(2) ELSE FInt(param_config.falloff_rate))]
    ELSE [ok |-> FALSE, score |-> NoneVal]

\* ScoreFrom giving a parameter without a value the score 0 under its weight
RECURSIVE ScoreFromCountingAbsent(_, _, _, _, _, _)
ScoreFromCountingAbsent(parameters, i, parameter_values, parameter_scores, weights, read) ==
    IF i > Len(parameters)
    THEN Return(calculate_weighted_score(parameter_scores, weights), read)
    ELSE LET param_config == parameters[i]
             param_id == param_config.id
         IN  IF param_id \notin DOMAIN parameter_values
             THEN ScoreFromCountingAbsent(parameters, i + 1, parameter_values,
                      DictPut(parameter_scores, param_id, FInt(0)),
                      DictPut(weights, param_id, FInt(param_config.weight)),
                      read \cup {param_id})
             ELSE LET scoring == ScoreByMethod(param_config,
                                               parameter_values[param_id])
                  IN  IF scoring.ok
                      THEN ScoreFromCountingAbsent(parameters, i + 1,
                               parameter_values,
                               DictPut(parameter_scores, param_id, scoring.score),
                               DictPut(weights, param_id,
                                       FInt(param_config.weight)),
                               read \cup {param_id})
                      ELSE Raise("ValueError", "Unknown scoring method",
                                 read \cup {param_id})

\* the loop of calculate_vibe_score over config["parameters"] from entry i
\* on; read: the parameter ids looked up in parameter_values so far
RECURSIVE ScoreFrom(_, _, _, _, _, _)
ScoreFrom(parameters, i, parameter_values, parameter_scores, weights, read) ==
    IF i > Len(parameters)
    THEN Return(calculate_weighted_score(parameter_scores, weights), read)
    ELSE LET param_config == parameters[i]
             param_id == param_config.id
         IN  IF param_id \notin DOMAIN parameter_values
             THEN ScoreFrom(parameters, i + 1, parameter_values,
                            parameter_scores, weights, read \cup {param_id})
             ELSE LET scoring == ScoreByMethod(param_config,
                                               parameter_values[param_id])
                  IN  IF scoring.ok
                      THEN ScoreFrom(parameters, i + 1, parameter_values,
                               DictPut(parameter_scores, param_id, scoring.score),
                               DictPut(weights, param_id,
                                       FInt(param_config.weight)),
                               read \cup {param_id})
                      ELSE Raise("ValueError", "Unknown scoring method",
                                 read \cup {param_id})

\* raised = TRUE for a vibe id that is not in the catalog
get_vibe_config(engine, vibe_id) ==
    IF vibe_id \notin DOMAIN engine.vibes
    THEN [raised |-> TRUE, config |-> [type |-> "none", parameters |-> <<>>]]
    ELSE [raised |-> FALSE, config |-> engine.vibes[vibe_id]]

\* the parameter ids; an advisor lists them bare
get_required_parameters(engine, vibe_id) ==
    LET got == get_vibe_config(engine, vibe_id)
    IN  IF got.raised THEN [raised |-> TRUE, ids |-> <<>>]
        ELSE IF got.config.type = "advisor"
        THEN [raised |-> FALSE, ids |-> got.config.parameters]
        ELSE [raised |-> FALSE,
              ids |-> [i \in 1..Len(got.config.parameters) |->
                          got.config.parameters[i].id]]

\* calculate_vibe_score without the check of the type: the loop takes the
\* first bare id of an advisor for a dict (TypeError) and scores an advisor
\* without parameters
calculate_vibe_score_scoring_advisors(engine, vibe_id, parameter_values) ==
    LET got == get_vibe_config(engine, vibe_id)
    IN  IF got.raised THEN Raise("ValueError", "Vibe not found", {})
        ELSE IF got.config.type = "advisor"
        THEN IF Len(got.config.parameters) = 0
             THEN Return(calculate_weighted_score(EmptyMap, EmptyMap), {})
             ELSE Raise("TypeError", "string indices must be integers", {})
        ELSE ScoreFrom(got.config.parameters, 1, parameter_values,
                       EmptyMap, EmptyMap, {})

calculate_vibe_score(engine, vibe_id, parameter_values) ==
    LET got == get_vibe_config(engine, vibe_id)
    IN  IF got.raised THEN Raise("ValueError", "Vibe not found", {})
        ELSE IF got.config.type = "advisor"
        THEN Raise("ValueError", "Advisors use custom logic, not scoring", {})
        ELSE ScoreFrom(got.config.parameters, 1, parameter_values,
                       EmptyMap, EmptyMap, {})

----------------------------------------------------------------------------
(* DataService.get_all_parameters *)

\* the location get_value_at_point asks _load_location_data for
Tried(self, lat, lon) == {_find_nearest_location(self, lat, lon)} \ {NoneName}

\* the loop over parameter_ids from entry i on; tried: the locations
\* _load_location_data was called for
RECURSIVE AllParametersFrom(_, _, _, _, _, _, _, _, _, _)
AllParametersFrom(self, parameter_ids, i, result, tried, lat, lon, month, year, range) ==
    IF i > Len(parameter_ids)
    THEN [ret |-> result, cache |-> self.cache, tried |-> tried]
    ELSE LET param_id == parameter_ids[i]
             got == get_value_at_point(self, param_id, lat, lon, month, year,
                                       range[1], range[2])
             after == [self EXCEPT !.cache = got.cache]
         IN  AllParametersFrom(after, parameter_ids, i + 1,
                 IF got.ret # NoneVal
                 THEN [k \in DOMAIN result \cup {param_id} |->
                          IF k = param_id THEN got.ret ELSE result[k]]
                 ELSE result,
                 tried \cup Tried(self, lat, lon),
                 lat, lon, month, year, range)

get_all_parameters(self, parameter_ids, lat, lon, month, year, start_date, end_date) ==
    AllParametersFrom(self, parameter_ids, 1, EmptyMap, {}, lat, lon, month, year,
                      <<start_date, end_date>>)

----------------------------------------------------------------------------
(* API routes: /where and /when *)

\* A request is a record; declared = TRUE for an instance of the declared
\* request model (WhereRequest, WhenRequest), which has no attribute
\* start_date, end_date or analysis_type, so that reading one raises
\* AttributeError; declared = FALSE for an object that carries the attributes
\* the handlers read.  A date string "YYYY-MM-DD" is the number YYYYMMDD, None
\* is NoneInt, an absent analysis_type is "".

\* CHOOSE r \in {e : x \in {call}} : TRUE is e with x the value of `call`,
\* computed once.

\* the response: the HTTP status, the detail of an HTTPException, the scores
\* of a 200; history: the errors get_vibe_config and calculate_vibe_score
\* raised while the request was served, the locations loaded for it
Response(status, detail, scores, raised, ch, tried) ==
    [status |-> status, detail |-> detail, scores |-> scores,
     raised |-> raised, cache |-> ch, tried |-> tried]

\* request.start_date and request.end_date
HasRange(request) == request.start_date # NoneInt /\ request.end_date # NoneInt

\* the loop of find_where over grid_data from point i on: a point with a
\* parameter missing is skipped, and so is a point whose scoring raised
RECURSIVE WhereFrom(_, _, _, _, _, _, _, _, _, _, _)
WhereFrom(self, engine, vibe, required_params, grid_data, i, scores, raised, tried, month_year, range) ==
    IF i > Len(grid_data)
    THEN [scores |-> scores, raised |-> raised, cache |-> self.cache,
          tried |-> tried]
    ELSE CHOOSE done \in
           {LET lat == grid_data[i][1]
                lon == grid_data[i][2]
                after == [self EXCEPT !.cache = got.cache]
                parameter_values == got.ret
            IN  IF Cardinality(DOMAIN parameter_values) # Len(required_params)
                THEN WhereFrom(after, engine, vibe, required_params, grid_data,
                               i + 1, scores, raised, tried \cup got.tried,
                               month_year, range)
                ELSE CHOOSE scored_point \in
                       {IF score.outcome = "return"
                        THEN WhereFrom(after, engine, vibe, required_params,
                                  grid_data, i + 1,
                                  Append(scores, [lat |-> lat, lon |-> lon,
                                                  score |-> score.value]),
                                  raised, tried \cup got.tried, month_year, range)
                        ELSE WhereFrom(after, engine, vibe, required_params,
                                  grid_data, i + 1, scores,
                                  raised \cup {score.error},
                                  tried \cup got.tried, month_year, range)
                          : score \in {calculate_vibe_score(engine, vibe,
                                                            parameter_values)}} : TRUE
              : got \in {get_all_parameters(self, required_params,
                             grid_data[i][1], grid_data[i][2], month_year[1],
                             month_year[2], range[1], range[2])}} : TRUE

\* the locations get_values_in_radius has get_value_at_point load
RadiusTried(self, center_lat, center_lon, radius_km) ==
    UNION {Tried(self, self.locations_cache[i].lat, self.locations_cache[i].lon) :
             i \in {j \in 1..Len(self.locations_cache) :
                      WithinRadius(Distance2(center_lat, center_lon,
                                             self.locations_cache[j].lat,
                                             self.locations_cache[j].lon),
                                   radius_km)}}

\* POST /where; now: datetime.now()
find_where(self, engine, request, now) ==
    IF request.month = NoneInt /\ request.declared
    THEN Response(500, "Internal error", <<>>, {}, self.cache, {})
    ELSE IF request.month = NoneInt /\ ~HasRange(request)
    THEN Response(400, "Either month or start_date/end_date must be provided",
                  <<>>, {}, self.cache, {})
    ELSE IF get_vibe_config(engine, request.vibe).raised
    THEN Response(400, "Vibe not found", <<>>, {"Vibe not found"}, self.cache, {})
    ELSE IF request.declared
    THEN Response(500, "Internal error", <<>>, {}, self.cache, {})
    ELSE IF HasRange(request) /\ ~(strptime(request.start_date).ok
                                    /\ strptime(request.end_date).ok)
    THEN Response(400, "time data does not match format", <<>>, {}, self.cache, {})
    ELSE
    LET required_params == get_required_parameters(engine, request.vibe).ids
        start_date == IF HasRange(request) THEN strptime(request.start_date)
                      ELSE NoneDt
        end_date == IF HasRange(request) THEN strptime(request.end_date)
                    ELSE NoneDt
        month == IF HasRange(request) THEN NoneInt ELSE request.month
        year == IF HasRange(request) THEN start_date.year
                ELSE IF request.year # NoneInt THEN request.year ELSE now.year
    IN  IF Len(required_params) = 0
        THEN Response(500, "Internal error", <<>>, {}, self.cache, {})
        ELSE
        CHOOSE response \in
          {IF done.scores = <<>>
           THEN Response(404, "No valid data found in the specified area",
                         <<>>, done.raised, done.cache, done.tried)
           ELSE Response(200, "", done.scores, done.raised, done.cache,
                         done.tried)
             : done \in
                 {WhereFrom([self EXCEPT !.cache = grid.cache], engine,
                            request.vibe, required_params, grid.ret, 1, <<>>, {},
                            RadiusTried(self, request.center_lat,
                                        request.center_lon, request.radius_km),
                            <<month, year>>, <<start_date, end_date>>)
                    : grid \in
                        {get_values_in_radius(self, required_params[1],
                             request.center_lat, request.center_lon,
                             request.radius_km, month, request.resolution, year,
                             start_date, end_date)}}} : TRUE

\* the loop of _analyze_monthly from `month` on
RECURSIVE MonthlyFrom(_, _, _, _, _, _, _, _, _, _)
MonthlyFrom(self, engine, request, required_params, month, scores, raised, tried, year, range) ==
    IF month > 12
    THEN [scores |-> scores, raised |-> raised, cache |-> self.cache,
          tried |-> tried]
    ELSE CHOOSE done \in
           {LET after == [self EXCEPT !.cache = got.cache]
                parameter_values == got.ret
            IN  IF Cardinality(DOMAIN parameter_values) # Len(required_params)
                THEN MonthlyFrom(after, engine, request, required_params,
                                 month + 1, scores, raised,
                                 tried \cup got.tried, year, range)
                ELSE CHOOSE scored_month \in
                       {IF score.outcome = "return"
                        THEN MonthlyFrom(after, engine, request, required_params,
                                  month + 1,
                                  Append(scores, [month |-> month,
                                                  score |-> score.value]),
                                  raised, tried \cup got.tried, year, range)
                        ELSE MonthlyFrom(after, engine, request, required_params,
                                  month + 1, scores, raised \cup {score.error},
                                  tried \cup got.tried, year, range)
                          : score \in {calculate_vibe_score(engine, request.vibe,
                                                            parameter_values)}} : TRUE
              : got \in {get_all_parameters(self, required_params, request.lat,
                             request.lon, month, year, range[1], range[2])}} : TRUE

_analyze_monthly(self, engine, request, required_params, year, start_date, end_date) ==
    CHOOSE response \in
      {IF done.scores = <<>>
       THEN Response(404, "No valid data found for the specified location",
                     <<>>, done.raised, done.cache, done.tried)
       ELSE Response(200, "", done.scores, done.raised, done.cache, done.tried)
         : done \in {MonthlyFrom(self, engine, request, required_params, 1,
                                 <<>>, {}, {}, year,
                                 <<start_date, end_date>>)}} : TRUE

\* current_date.strftime("%Y-%m-%d"), as the number YYYYMMDD
strftime(dt) == dt.year * 10000 + dt.month * 100 + dt.day

\* current_date + timedelta(days=1)
NextDay(dt) ==
    IF dt.day < DaysInMonth(dt.year, dt.month)
    THEN [dt EXCEPT !.day = dt.day + 1]
    ELSE IF dt.month < 12
    THEN [dt EXCEPT !.month = dt.month + 1, !.day = 1]
    ELSE [dt EXCEPT !.year = dt.year + 1, !.month = 1, !.day = 1]

\* what an exception that leaves find_when becomes
Escaped(score, ch, tried) ==
    IF score.outcome = "ValueError"
    THEN Response(400, score.error, <<>>, {score.error}, ch, tried)
    ELSE Response(500, "Internal error", <<>>, {score.error}, ch, tried)

\* the loop of _analyze_daily from current_date on; the scoring is not in a
\* try, what it raises leaves the loop
RECURSIVE DailyFrom(_, _, _, _, _, _, _, _, _)
DailyFrom(self, engine, request, required_params, current_date, end_date, scores, tried, year) ==
    IF DtLess(end_date, current_date)
    THEN IF scores = <<>>
         THEN Response(404, "No valid data found for the specified date range",
                       <<>>, {}, self.cache, tried)
         ELSE Response(200, "", scores, {}, self.cache, tried)
    ELSE CHOOSE response \in
           {LET after == [self EXCEPT !.cache = got.cache]
                parameter_values == got.ret
            IN  IF Cardinality(DOMAIN parameter_values) # Len(required_params)
                THEN DailyFrom(after, engine, request, required_params,
                               NextDay(current_date), end_date, scores,
                               tried \cup got.tried, year)
                ELSE CHOOSE scored_day \in
                       {IF score.outcome = "return"
                        THEN DailyFrom(after, engine, request, required_params,
                                  NextDay(current_date), end_date,
                                  Append(scores, [date |-> strftime(current_date),
                                                  score |-> score.value]),
                                  tried \cup got.tried, year)
                        ELSE Escaped(score, got.cache, tried \cup got.tried)
                          : score \in {calculate_vibe_score(engine, request.vibe,
                                                            parameter_values)}} : TRUE
              : got \in {get_all_parameters(self, required_params, request.lat,
                             request.lon, current_date.month, year,
                             current_date, current_date)}} : TRUE

_analyze_daily(self, engine, request, required_params, year, start_date, end_date) ==
    IF ~Given(start_date) \/ ~Given(end_date)
    THEN Response(400, "start_date and end_date are required for daily analysis",
                  <<>>, {}, self.cache, {})
    ELSE DailyFrom(self, engine, request, required_params, start_date,
                   end_date, <<>>, {}, year)

\* the factor _analyze_hourly applies at `hour`, in tenths
HourTenths(hour) ==
    IF hour \in 6..8 THEN 9
    ELSE IF hour \in 9..11 THEN 11
    ELSE IF hour \in 12..14 THEN 12
    ELSE IF hour \in 15..17 THEN 11
    ELSE IF hour \in 18..20 THEN 8
    ELSE 6

\* min(a, b) of Python
PyMin(a, b) == IF FLess(b, a) THEN b ELSE a

\* every hour scores the same parameter values; the scoring is not in a try
_analyze_hourly(self, engine, request, required_params, year, start_date, end_date, now) ==
    LET start == IF Given(start_date) THEN start_date ELSE now
        end == IF Given(end_date) THEN end_date ELSE start
    IN  CHOOSE response \in
          {CHOOSE scored_hours \in
             {IF base_score.outcome # "return"
              THEN Escaped(base_score, got.cache, got.tried)
              ELSE Response(200, "",
                       [h \in 1..24 |->
                           [hour |-> h - 1,
                            score |-> PyMax(FInt(0),
                                         PyMin(FInt(100),
                                               FMul(base_score.value,
                                                    Float(HourTenths(h - 1), 10))))]],
                       {}, got.cache, got.tried)
                : base_score \in {calculate_vibe_score(engine, request.vibe,
                                                       got.ret)}} : TRUE
             : got \in {get_all_parameters(self, required_params, request.lat,
                            request.lon, start.month, year, start, end)}} : TRUE

\* POST /when; now: datetime.now()
find_when(self, engine, request, now) ==
    IF get_vibe_config(engine, request.vibe).raised
    THEN Response(400, "Vibe not found", <<>>, {"Vibe not found"}, self.cache, {})
    ELSE IF request.declared
    THEN Response(500, "Internal error", <<>>, {}, self.cache, {})
    ELSE IF HasRange(request) /\ ~(strptime(request.start_date).ok
                                    /\ strptime(request.end_date).ok)
    THEN Response(400, "time data does not match format", <<>>, {}, self.cache, {})
    ELSE
    LET required_params == get_required_parameters(engine, request.vibe).ids
        analysis_type == IF request.analysis_type = "" THEN "monthly"
                         ELSE request.analysis_type
        start_date == IF HasRange(request) THEN strptime(request.start_date)
                      ELSE NoneDt
        end_date == IF HasRange(request) THEN strptime(request.end_date)
                    ELSE NoneDt
        year == IF HasRange(request) THEN start_date.year
                ELSE IF request.year # NoneInt THEN request.year ELSE now.year
    IN  IF analysis_type = "monthly"
        THEN _analyze_monthly(self, engine, request, required_params, year,
                              start_date, end_date)
        ELSE IF analysis_type = "daily"
        THEN _analyze_daily(self, engine, request, required_params, year,
                            start_date, end_date)
        ELSE IF analysis_type = "hourly"
        THEN _analyze_hourly(self, engine, request, required_params, year,
                             start_date, end_date, now)
        ELSE Response(400, "analysis_type must be 'monthly', 'daily', or 'hourly'",
                      <<>>, {}, self.cache, {})

----------------------------------------------------------------------------
(* API route /advisor and the advisor functions it calls.  Of the rule      *)
(* tables of the advisors the model keeps what decides whether a function   *)
(* raises and which lists of its result the route reads; the lengths of the *)
(* lists the tables fill are inputs (`listed`).                             *)

ADVISOR_FUNCTIONS == {"fashion", "crop", "mood"}

ADVISOR_VIBE_KEYS ==
    ("fashion" :> "fashion_stylist" @@ "crop" :> "crop_advisor"
     @@ "mood" :> "mood_predictor")

CROP_REQUIREMENTS == {"tomato", "rice", "wheat", "corn", "potato"}

\* what an advisor function returns or raises; lists: the length of each
\* list of the result dict, by key
AdvisorRaised(error) == [raised |-> TRUE, error |-> error, lists |-> EmptyMap]

AdvisorReturned(lists) == [raised |-> FALSE, error |-> "", lists |-> lists]

\* parameter_values.get(id, default)
ParamOr(parameter_values, id, default) ==
    IF id \in DOMAIN parameter_values THEN parameter_values[id]
    ELSE FInt(default)

_needs_outerwear(temperature, precipitation, wind_speed) ==
    \/ FLess(temperature, FInt(15))
    \/ FLess(FInt(2), precipitation)
    \/ FLess(FInt(5), wind_speed)

_needs_layering(temperature, wind_speed) ==
    \/ FLeq(FInt(10), temperature) /\ FLeq(temperature, FInt(20))
    \/ FLess(FInt(3), wind_speed)

\* fashion_rules.generate_recommendations with the default style and
\* occasion: the first outfit needs _select_outerwear whenever
\* _needs_outerwear holds, and _select_outerwear evaluates
\* CLOTHING_ITEMS["outerwear"]["jacket"], a key the table does not have
fashion_generate_recommendations(parameter_values, additional_params, listed) ==
    LET temperature == ParamOr(parameter_values, "T2M", 22)
        precipitation == ParamOr(parameter_values, "PRECTOTCORR", 2)
        wind_speed == ParamOr(parameter_values, "WS2M", 3)
    IN  IF _needs_outerwear(temperature, precipitation, wind_speed)
        THEN AdvisorRaised("KeyError")
        ELSE AdvisorReturned(
                 "outfit_recommendations" :>
                     (IF _needs_layering(temperature, wind_speed) THEN 2 ELSE 1)
                 @@ "accessory_recommendations" :> listed)

\* str.lower() of the crop names drawn
str_lower(name) ==
    CASE name = "Rice" -> "rice"
      [] OTHER -> name

\* crop_advisor.generate_recommendations: crop_type is
\* additional_params.get("crop_type", "tomato").lower(); a crop that is not
\* supported gives a dict with "error" and "supported_crops" only
crop_generate_recommendations(parameter_values, additional_params, listed) ==
    IF "crop_type" \in DOMAIN additional_params
       /\ ~additional_params["crop_type"].str
    THEN AdvisorRaised("AttributeError")
    ELSE LET crop_type == IF "crop_type" \in DOMAIN additional_params
                          THEN str_lower(additional_params["crop_type"].value)
                          ELSE "tomato"
         IN  IF crop_type \notin CROP_REQUIREMENTS
             THEN AdvisorReturned(EmptyMap)
             ELSE AdvisorReturned("alerts" :> listed @@ "recommendations" :> listed)

\* mood_predictor.generate_recommendations
mood_generate_recommendations(parameter_values, additional_params, listed) ==
    AdvisorReturned("activity_suggestions" :> listed)

\* ADVISOR_FUNCTIONS[advisor_type](parameter_values, additional_params)
advisor_func(advisor_type, parameter_values, additional_params, listed) ==
    CASE advisor_type = "fashion" ->
           fashion_generate_recommendations(parameter_values, additional_params, listed)
      [] advisor_type = "crop" ->
           crop_generate_recommendations(parameter_values, additional_params, listed)
      [] advisor_type = "mood" ->
           mood_generate_recommendations(parameter_values, additional_params, listed)

\* one Recommendation with `item` for each entry of advisor_result[key]
Recommended(advisor_result, key, item) ==
    IF key \in DOMAIN advisor_result.lists
    THEN [k \in 1..advisor_result.lists[key] |-> item]
    ELSE <<>>

_transform_advisor_result_to_recommendations(advisor_result, advisor_type) ==
    LET recommendations ==
          CASE advisor_type = "fashion" ->
                 Recommended(advisor_result, "outfit_recommendations", "Outfit")
                 \o Recommended(advisor_result, "accessory_recommendations",
                                "Accessory")
            [] advisor_type = "crop" ->
                 Recommended(advisor_result, "alerts", "Alert")
                 \o Recommended(advisor_result, "actionable_recommendations",
                                "Recommendation")
            [] advisor_type = "mood" ->
                 Recommended(advisor_result, "activity_suggestions", "Activity")
                 \o Recommended(advisor_result, "wellness_suggestions",
                                "Wellness tip")
    IN  IF recommendations = <<>> THEN <<"Weather Analysis Complete">>
        ELSE recommendations

\* the response of /advisor; stage: where the handler ended
AdvisorResponse(status, detail, stage, recommendations, ch, tried) ==
    [status |-> status, detail |-> detail, stage |-> stage,
     recommendations |-> recommendations, cache |-> ch, tried |-> tried]

\* data_service.get_all_parameters(required_params, lat, lon, month, year)
\* as the route calls it, with the "parameters" of the configuration as they
\* are: the entries of a standard vibe are dicts, and the look-up of a dict
\* in the parameters of a loaded location raises TypeError (unhashable)
AdvisorParameters(self, vibe_config, request) ==
    IF vibe_config.type = "standard"
    THEN LET location_name == _find_nearest_location(self, request.lat, request.lon)
             loaded == _load_location_data(self, location_name)
         IN  IF Len(vibe_config.parameters) = 0 \/ location_name = NoneName
             THEN [raised |-> FALSE, ret |-> EmptyMap, cache |-> self.cache,
                   tried |-> {}]
             ELSE IF loaded.ret = NoneStore
             THEN [raised |-> FALSE, ret |-> EmptyMap, cache |-> loaded.cache,
                   tried |-> {location_name}]
             ELSE [raised |-> TRUE, ret |-> EmptyMap, cache |-> loaded.cache,
                   tried |-> {location_name}]
    ELSE CHOOSE r \in
           {[raised |-> FALSE, ret |-> got.ret, cache |-> got.cache,
             tried |-> got.tried]
              : got \in {get_all_parameters(self, vibe_config.parameters,
                             request.lat, request.lon, request.month,
                             request.year, NoneDt, NoneDt)}} : TRUE

\* POST /advisor; initialized: whether the global vibe engine and the global
\* data service have been set
get_advisor_recommendations(self, engine, initialized, request, listed) ==
    IF request.advisor_type \notin ADVISOR_FUNCTIONS
    THEN AdvisorResponse(400, "Unknown advisor type", "type", <<>>,
                         self.cache, {})
    ELSE IF ~initialized.vibe_engine \/ ~initialized.data_service
    THEN AdvisorResponse(500, "Internal error", "services", <<>>, self.cache, {})
    ELSE IF get_vibe_config(engine, ADVISOR_VIBE_KEYS[request.advisor_type]).raised
    THEN AdvisorResponse(400, "Invalid advisor configuration", "config", <<>>,
                         self.cache, {})
    ELSE
    LET vibe_config ==
            get_vibe_config(engine, ADVISOR_VIBE_KEYS[request.advisor_type]).config
    IN  IF "parameters" \notin DOMAIN vibe_config
        THEN AdvisorResponse(500, "Internal error", "config", <<>>,
                             self.cache, {})
        ELSE CHOOSE response \in
          {IF got.raised
           THEN AdvisorResponse(500, "Error retrieving weather data", "data",
                                <<>>, got.cache, got.tried)
           ELSE IF DOMAIN got.ret = {}
           THEN AdvisorResponse(404,
                    "No data available for the specified location", "empty",
                    <<>>, got.cache, got.tried)
           ELSE CHOOSE built \in
             {IF advisor_result.raised
              THEN AdvisorResponse(500, "Error generating recommendations",
                                   "advisor", <<>>, got.cache, got.tried)
              ELSE AdvisorResponse(200, "", "done",
                       _transform_advisor_result_to_recommendations(
                           advisor_result, request.advisor_type),
                       got.cache, got.tried)
                : advisor_result \in
                    {advisor_func(request.advisor_type, got.ret,
                                  request.additional_params, listed)}} : TRUE
             : got \in {AdvisorParameters(self, vibe_config, request)}} : TRUE

----------------------------------------------------------------------------
(* The offline aggregation: pipeline/aggregation.py *)

\* load_point_json: raised for a file json.loads rejects or one without
\* properties.parameter; daily_df has a row per date of any series and a
\* column per parameter, NaN (NoneVal) where the series has no reading or the
\* fill value
load_point_json(data) ==
    IF ~data.json \/ ~data.has_parameter
    THEN [raised |-> TRUE, daily_df |-> EmptyMap]
    ELSE LET parameters == data.parameter
             all_dates == UNION {DOMAIN parameters[p] : p \in DOMAIN parameters}
         IN  [raised |-> FALSE,
              daily_df |->
                 [date \in all_dates |->
                     [p \in DOMAIN parameters |->
                         IF date \in DOMAIN parameters[p]
                            /\ parameters[p][date] # FILL_VALUE
                         THEN FInt(parameters[p][date])
                         ELSE NoneVal]]]

\* NaN of a pandas column
NaN == NoneVal

\* Series.round(decimals), scale = 10 ** decimals: the nearest multiple of
\* 1/scale, a tie going to the even one
Round(x, scale) ==
    LET n == x.num * scale
        q == n \div x.den
        r == n - q * x.den
    IN  IF 2 * r < x.den THEN Float(q, scale)
        ELSE IF 2 * r > x.den THEN Float(q + 1, scale)
        ELSE IF q % 2 = 0 THEN Float(q, scale)
        ELSE Float(q + 1, scale)

\* param.aggregation.lower()
Lower(aggregation) ==
    CASE aggregation = "MEAN" -> "mean"
      [] aggregation = "Sum" -> "sum"
      [] OTHER -> aggregation

\* _build_agg_spec from entry i on: parameter id -> pandas aggregation
RECURSIVE AggSpecFrom(_, _, _)
AggSpecFrom(parameters, i, spec) ==
    IF i > Len(parameters) THEN spec
    ELSE LET param == parameters[i]
             agg == Lower(param.aggregation)
             how == IF agg \in {"mean", "avg"} THEN "mean"
                    ELSE IF agg \in {"sum", "total"} THEN "sum"
                    ELSE IF agg \in {"min", "minimum"} THEN "min"
                    ELSE IF agg \in {"max", "maximum"} THEN "max"
                    ELSE "mean"
         IN  AggSpecFrom(parameters, i + 1,
                 [k \in DOMAIN spec \cup {param.id} |->
                     IF k = param.id THEN how ELSE spec[k]])

_build_agg_spec(parameters) == AggSpecFrom(parameters, 1, EmptyMap)

\* the columns of a daily table with at least one row
Columns(daily_df) == DOMAIN daily_df[CHOOSE date \in DOMAIN daily_df : TRUE]

\* the calendar months resample("MS") makes rows of: every month YYYYMM from
\* the first date to the last
MonthStarts(daily_df) ==
    LET first == CHOOSE d \in DOMAIN daily_df :
                    \A e \in DOMAIN daily_df : d <= e
        last == CHOOSE d \in DOMAIN daily_df :
                   \A e \in DOMAIN daily_df : e <= d
    IN  {ym \in (first \div 100)..(last \div 100) : ym % 100 \in 1..12}

\* the dates of month ym at which column p holds a number
Counted(daily_df, p, ym) ==
    {date \in DOMAIN daily_df : date \div 100 = ym /\ daily_df[date][p] # NaN}

RECURSIVE ColumnSum(_, _, _)
ColumnSum(daily_df, p, dates) ==
    IF dates = {} THEN FInt(0)
    ELSE LET date == CHOOSE d \in dates : TRUE
         IN  FAdd(daily_df[date][p], ColumnSum(daily_df, p, dates \ {date}))

\* one cell of resample("MS").agg(agg_spec): NaN is skipped; of no number
\* the mean, the minimum and the maximum are NaN and the sum is 0
ResampleAgg(how, daily_df, p, ym) ==
    LET dates == Counted(daily_df, p, ym)
    IN  IF how = "sum" THEN ColumnSum(daily_df, p, dates)
        ELSE IF dates = {} THEN NaN
        ELSE IF how = "mean"
        THEN FDiv(ColumnSum(daily_df, p, dates), FInt(Cardinality(dates)))
        ELSE IF how = "min"
        THEN daily_df[CHOOSE d \in dates :
                        \A e \in dates : FLeq(daily_df[d][p], daily_df[e][p])][p]
        ELSE daily_df[CHOOSE d \in dates :
                        \A e \in dates : FLeq(daily_df[e][p], daily_df[d][p])][p]

\* Series.clip(lower, upper): NaN stays NaN
SeriesClip(x, lo, hi) == IF x = NaN THEN NaN ELSE np_clip(x, lo, hi)

\* abs() of a float
FAbs(x) == IF x.num < 0 THEN Float(0 - x.num, x.den) ELSE x

\* _compute_mild_score with 100 all over [optimal_min, optimal_max]
_compute_mild_score_plateau(series, optimal_min, optimal_max) ==
    [ym \in DOMAIN series |->
        IF series[ym] = NaN THEN NaN
        ELSE IF FLeq(optimal_min, series[ym]) /\ FLeq(series[ym], optimal_max)
        THEN FInt(100)
        ELSE FInt(0)]

\* _compute_mild_score on a column, month by month
_compute_mild_score(series, optimal_min, optimal_max) ==
    LET midpoint == FDiv(FAdd(optimal_min, optimal_max), FInt(2))
        width == FDiv(FSub(optimal_max, optimal_min), FInt(2))
    IN  [ym \in DOMAIN series |->
            IF series[ym] = NaN THEN NaN
            ELSE LET diff == FAbs(FSub(series[ym], midpoint))
                     score == FSub(FInt(1),
                                 FDiv(diff, IF width.num # 0 THEN width
                                            ELSE FInt(1)))
                 IN  Round(FMul(np_clip(score, FInt(0), FInt(1)), FInt(100)),
                           100)]

\* None where a column is expected (a column is a function of the month)
NoneSeries == <<"None">>

\* _compute_stargazing_score putting 0 where an input is NaN
_compute_stargazing_score_zero_filled(cloud_fraction, rh_series) ==
    IF cloud_fraction = NoneSeries \/ rh_series = NoneSeries
    THEN EmptyMap
    ELSE [ym \in DOMAIN rh_series |->
            IF cloud_fraction[ym] = NaN \/ rh_series[ym] = NaN
            THEN FInt(0)
            ELSE LET clarity ==
                       FMul(FSub(FInt(1),
                                 np_clip(cloud_fraction[ym], FInt(0), FInt(1))),
                            FSub(FInt(1),
                                 FDiv(np_clip(rh_series[ym], FInt(0), FInt(100)),
                                      FInt(100))))
                 IN  Round(FMul(PyMax(clarity, FInt(0)), FInt(100)), 100)]

\* _compute_stargazing_score: an empty series when a column is None, NaN
\* where an input is NaN
_compute_stargazing_score(cloud_fraction, rh_series) ==
    IF cloud_fraction = NoneSeries \/ rh_series = NoneSeries
    THEN EmptyMap
    ELSE [ym \in DOMAIN rh_series |->
            IF cloud_fraction[ym] = NaN \/ rh_series[ym] = NaN
            THEN NaN
            ELSE LET clarity ==
                       FMul(FSub(FInt(1),
                                 np_clip(cloud_fraction[ym], FInt(0), FInt(1))),
                            FSub(FInt(1),
                                 FDiv(np_clip(rh_series[ym], FInt(0), FInt(100)),
                                      FInt(100))))
                 IN  Round(FMul(PyMax(clarity, FInt(0)), FInt(100)), 100)]

\* CloudFraction with 0 where the clear-sky value is 0 or NaN
CloudFractionZeroFilled(allsky, clearsky) ==
    IF allsky = NaN THEN NaN
    ELSE IF clearsky = NaN \/ clearsky.num = 0 THEN FInt(0)
    ELSE np_clip(FSub(FInt(1), FDiv(allsky, clearsky)), FInt(0), FInt(1))

\* one cell of CLOUD_FRACTION: clearsky.replace(0, np.nan), the ratio, clip
CloudFraction(allsky, clearsky) ==
    IF allsky = NaN \/ clearsky = NaN \/ clearsky.num = 0 THEN NaN
    ELSE SeriesClip(FSub(FInt(1), FDiv(allsky, clearsky)), FInt(0), FInt(1))

\* monthly[column] = series: aligned on the index, NaN where series has no row
Aligned(series, ym) == IF ym \in DOMAIN series THEN series[ym] ELSE NaN

\* compute_monthly_statistics: raised for an empty daily table (ValueError)
\* and for a configured parameter that is no column of it (KeyError of
\* agg); monthly: calendar month YYYYMM -> column -> value
compute_monthly_statistics(daily_df, parameters) ==
    IF DOMAIN daily_df = {}
    THEN [raised |-> TRUE, monthly |-> EmptyMap]
    ELSE
    LET agg_spec == _build_agg_spec(parameters)
        months == MonthStarts(daily_df)
        agg == [ym \in months |->
                   [p \in DOMAIN agg_spec |->
                       ResampleAgg(agg_spec[p], daily_df, p, ym)]]
        sky == {"ALLSKY_SFC_SW_DWN", "CLRSKY_SFC_SW_DWN"} \subseteq DOMAIN agg_spec
        rain == "PRECTOTCORR" \in Columns(daily_df)
        cloud_fraction ==
            [ym \in months |->
                IF sky THEN CloudFraction(agg[ym]["ALLSKY_SFC_SW_DWN"],
                                          agg[ym]["CLRSKY_SFC_SW_DWN"])
                ELSE NaN]
        rain_days ==
            [ym \in months |->
                Cardinality({date \in Counted(daily_df, "PRECTOTCORR", ym) :
                               FLeq(FInt(1), daily_df[date]["PRECTOTCORR"])})]
        total_days ==
            [ym \in months |-> Cardinality(Counted(daily_df, "PRECTOTCORR", ym))]
        mild == IF "T2M" \in DOMAIN agg_spec
                THEN _compute_mild_score([ym \in months |-> agg[ym]["T2M"]],
                                         FInt(18), FInt(25))
                ELSE EmptyMap
        stargazing ==
            IF "RH2M" \in DOMAIN agg_spec
            THEN _compute_stargazing_score(cloud_fraction,
                                           [ym \in months |-> agg[ym]["RH2M"]])
            ELSE EmptyMap
        columns == DOMAIN agg_spec \cup {"CLOUD_FRACTION"}
                   \cup (IF rain THEN {"RAINY_DAY_COUNT", "RAINY_DAY_FRACTION"}
                         ELSE {})
                   \cup (IF "T2M" \in DOMAIN agg_spec THEN {"MILD_SCORE"} ELSE {})
                   \cup (IF "RH2M" \in DOMAIN agg_spec THEN {"STARGAZING_SCORE"}
                         ELSE {})
    IN  IF ~(DOMAIN agg_spec \subseteq Columns(daily_df))
        THEN [raised |-> TRUE, monthly |-> EmptyMap]
        ELSE [raised |-> FALSE,
              monthly |->
                 [ym \in months |->
                     [c \in columns |->
                         CASE c = "CLOUD_FRACTION" -> cloud_fraction[ym]
                           [] c = "RAINY_DAY_COUNT" -> FInt(rain_days[ym])
                           [] c = "RAINY_DAY_FRACTION" ->
                                 IF total_days[ym] = 0 THEN NaN
                                 ELSE Round(Float(rain_days[ym], total_days[ym]),
                                            10000)
                           [] c = "MILD_SCORE" -> Aligned(mild, ym)
                           [] c = "STARGAZING_SCORE" -> Aligned(stargazing, ym)
                           [] OTHER -> agg[ym][c]]]]

\* aggregate_point_file: the monthly table it exports as CSV and parquet and
\* returns; raised when load_point_json or compute_monthly_statistics raised
aggregate_point_file(data, parameters) ==
    LET loaded == load_point_json(data)
        computed == compute_monthly_statistics(loaded.daily_df, parameters)
    IN  IF loaded.raised THEN [raised |-> TRUE, dataframe |-> EmptyMap]
        ELSE IF computed.raised THEN [raised |-> TRUE, dataframe |-> EmptyMap]
        ELSE [raised |-> FALSE, dataframe |-> computed.monthly]

----------------------------------------------------------------------------
(* The service as a state machine *)

self == [locations_cache |-> locations_cache, cache |-> cache, disk |-> disk]

\* a directory <location_name>_point with a raw/ subdirectory holding `files`
PointDir(location_name, files) ==
    [name |-> location_name, point |-> TRUE, has_raw |-> TRUE, files |-> files]

NoCall ==
    [op |-> "none", parameter_id |-> "", lat |-> 0, lon |-> 0,
     month |-> NoneInt, year |-> NoneInt,
     start_date |-> NoneDt, end_date |-> NoneDt,
     radius_km |-> 0, location_name |-> NoneName]

\* returned: whether the operation in `call` has run; opened: the number of
\* files it opened; repeat: whether _load_location_data had been called for
\* call.location_name before
NoRet ==
    [returned |-> FALSE, value |-> NoneVal, name |-> NoneName,
     store |-> NoneStore, results |-> <<>>, opened |-> 0, repeat |-> FALSE]

\* DataService(data_path) over the directories dk
Constructed(dk) ==
    /\ disk = dk
    /\ locations_cache = _load_available_locations(dk)
    /\ cache = EmptyMap
    /\ attempted = {}
    /\ call = NoCall
    /\ ret = NoRet

GetValueAtPoint(parameter_id, lat, lon, month, year, start_date, end_date) ==
    LET got == get_value_at_point(self, parameter_id, lat, lon, month, year,
                                  start_date, end_date)
    IN  /\ call' = [NoCall EXCEPT !.op = "get_value_at_point",
                                  !.parameter_id = parameter_id,
                                  !.lat = lat, !.lon = lon,
                                  !.month = month, !.year = year,
                                  !.start_date = start_date,
                                  !.end_date = end_date]
        /\ ret' = [NoRet EXCEPT !.returned = TRUE, !.value = got.ret,
                                !.opened = got.opened]
        /\ cache' = got.cache
        /\ attempted' = attempted
                \cup ({_find_nearest_location(self, lat, lon)} \ {NoneName})
        /\ UNCHANGED <<disk, locations_cache, outside_service>>

GetValuesInRadius(parameter_id, center_lat, center_lon, radius_km, month, resolution_km) ==
    LET got == get_values_in_radius(self, parameter_id, center_lat, center_lon,
                                    radius_km, month, resolution_km,
                                    NoneInt, NoneDt, NoneDt)
    IN  /\ call' = [NoCall EXCEPT !.op = "get_values_in_radius",
                                  !.parameter_id = parameter_id,
                                  !.lat = center_lat, !.lon = center_lon,
                                  !.radius_km = radius_km,
                                  !.month = month]
        /\ ret' = [NoRet EXCEPT !.returned = TRUE, !.results = got.ret,
                                !.opened = got.opened]
        /\ cache' = got.cache
        /\ attempted' = attempted \cup
              {_find_nearest_location(self, locations_cache[i].lat,
                                      locations_cache[i].lon) :
                 i \in {j \in 1..Len(locations_cache) :
                          WithinRadius(Distance2(center_lat, center_lon,
                                                 locations_cache[j].lat,
                                                 locations_cache[j].lon),
                                       radius_km)}}
        /\ UNCHANGED <<disk, locations_cache, outside_service>>

\* a directory of outputs/ whose name does not end in _point
OtherDir(name, files) ==
    [name |-> name, point |-> FALSE, has_raw |-> TRUE, files |-> files]

\* DataService.__init__ on the directories on disk: the index is built
LoadAvailableLocations ==
    /\ call.op = "none"
    /\ call' = [NoCall EXCEPT !.op = "_load_available_locations"]
    /\ ret' = [NoRet EXCEPT !.returned = TRUE]
    /\ locations_cache' = _load_available_locations(disk)
    /\ UNCHANGED <<disk, cache, attempted, outside_service>>

FindNearestLocation(lat, lon) ==
    /\ call' = [NoCall EXCEPT !.op = "_find_nearest_location",
                              !.lat = lat, !.lon = lon]
    /\ ret' = [NoRet EXCEPT !.returned = TRUE,
                            !.name = _find_nearest_location(self, lat, lon)]
    /\ UNCHANGED <<disk, locations_cache, cache, attempted, outside_service>>

LoadLocationData(location_name) ==
    LET got == _load_location_data(self, location_name)
    IN  /\ call' = [NoCall EXCEPT !.op = "_load_location_data",
                                  !.location_name = location_name]
        /\ ret' = [NoRet EXCEPT !.returned = TRUE, !.store = got.ret,
                                !.opened = got.opened,
                                !.repeat = location_name \in attempted]
        /\ cache' = got.cache
        /\ attempted' = attempted \cup {location_name}
        /\ UNCHANGED <<disk, locations_cache, outside_service>>

\* the state of the data service
service_vars == <<disk, locations_cache, cache, attempted, call, ret>>

\* the global VibeEngine
vibe_engine == [vibes |-> vibes]

\* VibeEngine(config_path) over the vibe dictionary `catalog`
VibesLoaded(catalog) == vibes = catalog

CalculateVibeScore(vibe_id, parameter_values) ==
    LET got == calculate_vibe_score(vibe_engine, vibe_id, parameter_values)
    IN  /\ scored' = [NoScore EXCEPT !.op = "calculate_vibe_score",
                                     !.vibe_id = vibe_id,
                                     !.parameter_values = parameter_values,
                                     !.outcome = got.outcome,
                                     !.error = got.error,
                                     !.value = got.value,
                                     !.read = got.read]
        /\ UNCHANGED <<service_vars, vibes, answered, pipeline, threads>>

ScoreOptimalRange(value, optimal_min, optimal_max, falloff_rate) ==
    /\ scored' = [NoScore EXCEPT
                     !.op = "score_optimal_range",
                     !.args = <<value, optimal_min, optimal_max, falloff_rate>>,
                     !.outcome = "return",
                     !.value = score_optimal_range(FInt(value), FInt(optimal_min),
                                   FInt(optimal_max), FInt(falloff_rate))]
    /\ UNCHANGED <<service_vars, vibes, answered, pipeline, threads>>

\* the data service as the routes find it
ServiceAfter(resp) ==
    /\ cache' = resp.cache
    /\ attempted' = attempted \cup resp.tried
    /\ UNCHANGED <<disk, locations_cache, call, ret>>

FindWhere(request, now) ==
    \E resp \in {find_where(self, vibe_engine, request, now)} :
        /\ answered' = [route |-> "where", request |-> request,
                        status |-> resp.status, detail |-> resp.detail,
                        scores |-> resp.scores, raised |-> resp.raised]
        /\ ServiceAfter(resp)
        /\ UNCHANGED <<vibes, scored, pipeline, threads>>

FindWhen(request, now) ==
    \E resp \in {find_when(self, vibe_engine, request, now)} :
        /\ answered' = [route |-> "when", request |-> request,
                        status |-> resp.status, detail |-> resp.detail,
                        scores |-> resp.scores, raised |-> resp.raised]
        /\ ServiceAfter(resp)
        /\ UNCHANGED <<vibes, scored, pipeline, threads>>

\* POST /advisor is served
GetAdvisorRecommendations(initialized, request, listed) ==
    \E resp \in {get_advisor_recommendations(self, vibe_engine, initialized,
                                              request, listed)} :
        /\ answered' = [route |-> "advisor", request |-> request,
                        initialized |-> initialized,
                        status |-> resp.status, detail |-> resp.detail,
                        stage |-> resp.stage,
                        recommendations |-> resp.recommendations]
        /\ ServiceAfter(resp)
        /\ UNCHANGED <<vibes, scored, pipeline, threads>>

\* a request thread that has not called _load_location_data yet
IdleThread ==
    [pc |-> "idle", location_name |-> NoneName, j |-> 0,
     all_parameters |-> EmptyMap, ret |-> NoneStore, opened |-> 0]

\* thread t enters _load_location_data(location_name): the look into
\* locations_cache
BeginLoad(t, location_name) ==
    /\ threads[t].pc = "idle"
    /\ threads' = [threads EXCEPT ![t] =
          IF location_name \notin Names(locations_cache)
          THEN [IdleThread EXCEPT !.pc = "returned",
                                  !.location_name = location_name]
          ELSE [IdleThread EXCEPT !.pc = "check",
                                  !.location_name = location_name]]
    /\ UNCHANGED <<service_vars, vibes, scored, answered, pipeline>>

\* `if cache_key in self.cache`; otherwise all_data = {"parameters": {}}
CheckCache(t) ==
    /\ threads[t].pc = "check"
    /\ threads' = [threads EXCEPT ![t] =
          IF threads[t].location_name \in DOMAIN cache
          THEN [threads[t] EXCEPT !.pc = "hit"]
          ELSE [threads[t] EXCEPT !.pc = "loading", !.j = 1,
                                  !.all_parameters = EmptyMap]]
    /\ UNCHANGED <<service_vars, vibes, scored, answered, pipeline>>

\* `return self.cache[cache_key]`
ReturnCached(t) ==
    /\ threads[t].pc = "hit"
    /\ threads' = [threads EXCEPT ![t] =
          [threads[t] EXCEPT !.pc = "returned",
                             !.ret = cache[threads[t].location_name]]]
    /\ UNCHANGED <<service_vars, vibes, scored, answered, pipeline>>

\* LoadFile storing its all_data in self.cache after every file
LoadFilePublishing(t) ==
    /\ threads[t].pc = "loading"
    /\ LET location_data == Lookup(locations_cache, threads[t].location_name)
       IN  /\ threads[t].j <= Len(location_data.files)
           /\ LET data == ReadFile(disk, location_data.files[threads[t].j])
                  merged == MergeParameters(threads[t].all_parameters,
                                            data.parameter)
              IN  IF data.json /\ data.has_parameter
                  THEN /\ threads' = [threads EXCEPT ![t] =
                             [threads[t] EXCEPT
                                 !.j = threads[t].j + 1,
                                 !.opened = threads[t].opened + 1,
                                 !.all_parameters = merged]]
                       /\ cache' = CachePut(cache, threads[t].location_name,
                                       [kind       |-> "dict",
                                        parameters |-> merged,
                                        lat        |-> location_data.lat,
                                        lon        |-> location_data.lon])
                  ELSE /\ threads' = [threads EXCEPT ![t] =
                             [threads[t] EXCEPT
                                 !.pc = "returned",
                                 !.opened = threads[t].opened + 1,
                                 !.ret = NoneStore]]
                       /\ cache' = cache
    /\ UNCHANGED <<disk, locations_cache, attempted, call, ret,
                   vibes, scored, answered, pipeline>>

\* one turn of the loop over location_data["files"]: the file is merged into
\* the thread's own all_data; an exception ends the call with None
LoadFile(t) ==
    /\ threads[t].pc = "loading"
    /\ LET location_data == Lookup(locations_cache, threads[t].location_name)
       IN  /\ threads[t].j <= Len(location_data.files)
           /\ LET data == ReadFile(disk, location_data.files[threads[t].j])
              IN  threads' = [threads EXCEPT ![t] =
                     IF data.json /\ data.has_parameter
                     THEN [threads[t] EXCEPT
                              !.j = threads[t].j + 1,
                              !.opened = threads[t].opened + 1,
                              !.all_parameters =
                                  MergeParameters(threads[t].all_parameters,
                                                  data.parameter)]
                     ELSE [threads[t] EXCEPT
                              !.pc = "returned",
                              !.opened = threads[t].opened + 1,
                              !.ret = NoneStore]]
           /\ cache' = cache
    /\ UNCHANGED <<disk, locations_cache, attempted, call, ret,
                   vibes, scored, answered, pipeline>>

\* after the loop: `self.cache[cache_key] = all_data; return all_data`
StoreLoaded(t) ==
    /\ threads[t].pc = "loading"
    /\ LET location_data == Lookup(locations_cache, threads[t].location_name)
           all_data == [kind       |-> "dict",
                        parameters |-> threads[t].all_parameters,
                        lat        |-> location_data.lat,
                        lon        |-> location_data.lon]
       IN  /\ threads[t].j > Len(location_data.files)
           /\ cache' = CachePut(cache, threads[t].location_name, all_data)
           /\ threads' = [threads EXCEPT ![t] =
                 [threads[t] EXCEPT !.pc = "returned", !.ret = all_data]]
    /\ UNCHANGED <<disk, locations_cache, attempted, call, ret,
                   vibes, scored, answered, pipeline>>

\* the data service is not part of the run: the aggregation is a script
ServiceDown(dk) ==
    /\ disk = dk
    /\ locations_cache = <<>>
    /\ cache = EmptyMap
    /\ attempted = {}
    /\ call = NoCall
    /\ ret = NoRet

\* outputs/<area_key> without a raw/ subdirectory
BareDir(area_key) ==
    [name |-> area_key, point |-> TRUE, has_raw |-> FALSE, files |-> <<>>]

\* config.parameters of the pipeline configuration
config_parameters == <<[id |-> "T2M", aggregation |-> "mean"]>>

\* compute_monthly_statistics(daily_df=..., parameters=...) on its own
ComputeMonthlyStatistics(daily_df, parameters) ==
    /\ \E computed \in {compute_monthly_statistics(daily_df, parameters)} :
          pipeline' = [pc |-> "computed", daily_df |-> daily_df,
                       parameters |-> parameters,
                       raised |-> computed.raised,
                       monthly |-> computed.monthly]
    /\ UNCHANGED <<service_vars, vibes, scored, answered, threads>>

\* main() of aggregate_points.py starts on the target areas, the directories
\* of outputs/ in order.  pipeline.pc: "main" between two areas, "files" in
\* the loop of aggregate_area, "done" after the last area, "raised" when an
\* exception left main(); written: the (area, file) whose monthly table was
\* exported; summaries: the areas whose combined summary was written
StartMain ==
    /\ pipeline.pc = "idle"
    /\ pipeline' = [pc |-> "main", area |-> 1, file |-> 0,
                    combined_frames |-> <<>>, written |-> {},
                    summaries |-> {}, log |-> {}]
    /\ UNCHANGED <<service_vars, vibes, scored, answered, threads>>

\* aggregate_area up to its loop: an area without raw/ is logged and left
AggregateArea ==
    /\ pipeline.pc = "main"
    /\ pipeline.area <= Len(disk)
    /\ pipeline' =
          IF ~disk[pipeline.area].has_raw
          THEN [pipeline EXCEPT
                   !.area = pipeline.area + 1,
                   !.log = pipeline.log
                            \cup {<<"No raw data found", disk[pipeline.area].name>>}]
          ELSE [pipeline EXCEPT !.pc = "files", !.file = 1,
                                !.combined_frames = <<>>]
    /\ UNCHANGED <<service_vars, vibes, scored, answered, threads>>

\* one turn of the loop of aggregate_area: nothing catches what
\* aggregate_point_file raises, the exception leaves aggregate_area and main()
AggregatePointFile ==
    /\ pipeline.pc = "files"
    /\ pipeline.file <= Len(disk[pipeline.area].files)
    /\ LET result == aggregate_point_file(disk[pipeline.area].files[pipeline.file],
                                          config_parameters)
       IN  pipeline' =
              IF result.raised
              THEN [pipeline EXCEPT !.pc = "raised"]
              ELSE [pipeline EXCEPT
                       !.file = pipeline.file + 1,
                       !.combined_frames = Append(pipeline.combined_frames,
                                                  result.dataframe),
                       !.written = pipeline.written
                                    \cup {<<disk[pipeline.area].name, pipeline.file>>}]
    /\ UNCHANGED <<service_vars, vibes, scored, answered, threads>>

\* aggregate_area after its loop: the combined summary of the area
CombineArea ==
    /\ pipeline.pc = "files"
    /\ pipeline.file > Len(disk[pipeline.area].files)
    /\ pipeline' =
          IF pipeline.combined_frames = <<>>
          THEN [pipeline EXCEPT
                   !.pc = "main", !.area = pipeline.area + 1,
                   !.log = pipeline.log
                            \cup {<<"No JSON files processed",
                                    disk[pipeline.area].name>>}]
          ELSE [pipeline EXCEPT
                   !.pc = "main", !.area = pipeline.area + 1,
                   !.summaries = pipeline.summaries \cup {disk[pipeline.area].name}]
    /\ UNCHANGED <<service_vars, vibes, scored, answered, threads>>

\* main() returns after the last area
ExitMain ==
    /\ pipeline.pc = "main"
    /\ pipeline.area > Len(disk)
    /\ pipeline' = [pipeline EXCEPT !.pc = "done"]
    /\ UNCHANGED <<service_vars, vibes, scored, answered, threads>>

----------------------------------------------------------------------------
(* SpecAgg: get_value_at_point on one location whose only file holds a     *)
(* drawn series, for a drawn time filter                                   *)

AggDateKeys == {20230110, 20230220, 20250110, 20250220}

AggValues == {10, 20, FILL_VALUE}

\* every series of at most MaxLen daily entries
AggSeries ==
    UNION {[keys -> AggValues] :
             keys \in {K \in SUBSET AggDateKeys : Cardinality(K) <= MaxLen}}

AggMonths == {NoneInt, 1, 2}

AggYears == {NoneInt, 2022, 2023, 2024, 2026}

AggDates ==
    {NoneDt, strptime(20221231), strptime(20230110), strptime(20240601),
     strptime(20260101)}

\* the service over the drawn series, and a request received
InitAgg ==
    \E series \in AggSeries, month \in AggMonths, year \in AggYears,
       start_date \in AggDates, end_date \in AggDates :
        /\ disk = <<PointDir("delhi",
                      <<PointFile(0, 0, [p \in {"T2M"} |-> series])>>)>>
        /\ locations_cache = _load_available_locations(disk)
        /\ cache = EmptyMap
        /\ attempted = {}
        /\ call = [NoCall EXCEPT !.op = "get_value_at_point",
                                 !.parameter_id = "T2M",
                                 !.month = month, !.year = year,
                                 !.start_date = start_date,
                                 !.end_date = end_date]
        /\ ret = NoRet
        /\ OutsideServiceIdle

\* the request is served
NextAgg ==
    /\ ~ret.returned
    /\ GetValueAtPoint(call.parameter_id, call.lat, call.lon, call.month,
                       call.year, call.start_date, call.end_date)

SpecAgg == InitAgg /\ [][NextAgg]_vars

----------------------------------------------------------------------------
(* Spec: the service over a drawn set of location directories, serving     *)
(* any sequence of calls                                                   *)

DirNames == <<"delhi", "mumbai">>

\* (lat, lon) of a sampled location
SvcCoords == {<<0, 1>>, <<1, 0>>}

\* (lat, lon) of a query
QueryPoints == {<<0, 0>>, <<0, 1>>, <<1, 1>>}

SvcParameters == {"T2M", "RH2M"}

\* January readings of directory i, two download chunks that overlap on one day
FirstChunk(i) == [p \in {"T2M"} |-> (20230110 :> 10 * i @@ 20230120 :> 20 * i)]

SecondChunk(i) == ("T2M" :> (20230120 :> 40 * i) @@ "RH2M" :> (20230110 :> 50))

\* the raw/ directories drawn for directory i at (lat, lon): two good chunks;
\* one good chunk (no RH2M); a good chunk and an unparsable one; a file
\* without properties.parameter
SvcFileSets(i, lat, lon) ==
    {<<PointFile(lat, lon, FirstChunk(i)), PointFile(lat, lon, SecondChunk(i))>>,
     <<PointFile(lat, lon, FirstChunk(i))>>,
     <<PointFile(lat, lon, FirstChunk(i)), BadJson>>,
     <<NoParameterFile(lat, lon)>>}

SvcDirs(i) ==
    {PointDir(DirNames[i], files) :
        files \in UNION {SvcFileSets(i, c[1], c[2]) : c \in SvcCoords}}

\* outputs/ with the first n directories, each drawn
SvcDisks ==
    UNION {{dk \in [1..n -> UNION {SvcDirs(i) : i \in 1..n}] :
              \A i \in 1..n : dk[i] \in SvcDirs(i)} :
           n \in 0..Len(DirNames)}

Init == \E dk \in SvcDisks : Constructed(dk) /\ OutsideServiceIdle

Next ==
    \/ \E parameter_id \in SvcParameters, q \in QueryPoints, month \in {NoneInt, 2} :
          GetValueAtPoint(parameter_id, q[1], q[2], month, NoneInt, NoneDt, NoneDt)
    \/ \E parameter_id \in SvcParameters, q \in {<<0, 0>>, <<0, 1>>},
          radius_km \in {0, 111}, resolution_km \in {5, 10} :
          GetValuesInRadius(parameter_id, q[1], q[2], radius_km, NoneInt,
                            resolution_km)
    \/ \E q \in QueryPoints : FindNearestLocation(q[1], q[2])
    \/ \E i \in 1..Len(DirNames) : LoadLocationData(DirNames[i])

Spec == Init /\ [][Next]_vars

----------------------------------------------------------------------------
(* SpecScore: the vibe engine over a drawn vibe dictionary, for one drawn   *)
(* scoring call                                                            *)

ScoreParameterIds == <<"T2M", "RH2M">>

ScoreWeights == {-1, 0, 1, 3}

ScoreMethods == {"low_is_better", "high_is_better", "optimal_range", "sigmoid"}

ScoreValues == {-1, 0, 1, 2, 3, 57, 58}

\* (optimal_min, optimal_max) of the direct calls of score_optimal_range
ScoreBands == {<<0, 1>>, <<1, 2>>}

ScoreFalloffs == {1, 2}

\* an entry of a standard vibe's "parameters": min/max 0..2, the optimal
\* band 0..1, falloff_rate left to its default for T2M and 1 for RH2M
ParamConfig(id, weight, scoring) ==
    [id |-> id, weight |-> weight, scoring |-> scoring,
     min |-> 0, max |-> 2, optimal_min |-> 0, optimal_max |-> 1,
     falloff_rate |-> IF id = "T2M" THEN NoneInt ELSE 1]

ParamConfigs(id) ==
    {ParamConfig(id, weight, scoring) :
        weight \in ScoreWeights, scoring \in ScoreMethods}

StandardVibe(parameters) == [type |-> "standard", parameters |-> parameters]

AdvisorVibe(parameters) == [type |-> "advisor", parameters |-> parameters]

\* a standard vibe of two drawn parameters, an advisor and an advisor that
\* lists no parameter
ScoreCatalogs ==
    {("picnic" :> StandardVibe(<<first, second>>)
      @@ "fashion" :> AdvisorVibe(ScoreParameterIds)
      @@ "idle" :> AdvisorVibe(<<>>)) :
        first \in ParamConfigs("T2M"), second \in ParamConfigs("RH2M")}

ScoreVibeIds == {"picnic", "fashion", "idle", "nowhere"}

\* every parameter_values over some of the parameter ids
ScoreParameterValues ==
    UNION {[ids -> {FInt(v) : v \in ScoreValues}] :
             ids \in SUBSET {"T2M", "RH2M"}}

InitScore ==
    /\ Constructed(<<>>)
    /\ \E catalog \in ScoreCatalogs : VibesLoaded(catalog)
    /\ scored = NoScore
    /\ answered = NoAnswer
    /\ pipeline = NoPipeline
    /\ threads = NoThreads

NextScore ==
    \/ /\ scored.op = "none"
       /\ \E vibe_id \in ScoreVibeIds, parameter_values \in ScoreParameterValues :
             CalculateVibeScore(vibe_id, parameter_values)
    \/ /\ scored.op = "none"
       /\ \E value \in ScoreValues, band \in ScoreBands,
             falloff_rate \in ScoreFalloffs :
             ScoreOptimalRange(value, band[1], band[2], falloff_rate)

SpecScore == InitScore /\ [][NextScore]_vars

----------------------------------------------------------------------------
(* SpecRoutes: the application over drawn location directories and a drawn  *)
(* vibe dictionary, serving one drawn /where or /when request               *)

\* an entry of a standard vibe's "parameters" with the range 0..100
WideParamConfig(id, weight, scoring) ==
    [ParamConfig(id, weight, scoring) EXCEPT !.max = 100]

\* the second parameter of the standard vibe is drawn; "bare" is a standard
\* vibe that lists no parameter, "stroll" one of a single temperature
RouteCatalogs ==
    {("picnic" :> StandardVibe(<<ParamConfig("T2M", 1, "low_is_better"),
                                 ParamConfig("RH2M", 3, scoring)>>)
      @@ "fashion" :> AdvisorVibe(ScoreParameterIds)
      @@ "bare" :> StandardVibe(<<>>)
      @@ "stroll" :> StandardVibe(<<WideParamConfig("T2M", 1, "low_is_better")>>)) :
        scoring \in {"high_is_better", "sigmoid"}}

RouteVibeIds == {"picnic", "fashion", "bare", "stroll", "nowhere"}

\* requests to /where around (0, 0): instances of WhereRequest, and objects
\* with start_date and end_date, None or one day of the data
WhereRequests ==
    {[vibe |-> vibe, month |-> 1, year |-> NoneInt,
      center_lat |-> 0, center_lon |-> 0, radius_km |-> 111, resolution |-> 5,
      declared |-> shape[1], start_date |-> shape[2], end_date |-> shape[2]] :
        vibe \in RouteVibeIds,
        shape \in {<<TRUE, NoneInt>>, <<FALSE, NoneInt>>, <<FALSE, 20230110>>}}

\* requests to /when at (0, 1): instances of WhenRequest, and objects with
\* analysis_type, start_date and end_date
WhenRequests ==
    {[vibe |-> vibe, lat |-> 0, lon |-> 1, year |-> NoneInt,
      declared |-> FALSE, analysis_type |-> analysis_type,
      start_date |-> days[1], end_date |-> days[2]] :
        vibe \in RouteVibeIds,
        analysis_type \in {"", "daily", "hourly", "weekly"},
        days \in {<<NoneInt, NoneInt>>, <<20230110, 20230110>>,
                  <<20230110, 20230120>>}}
    \cup
    {[vibe |-> vibe, lat |-> 0, lon |-> 1, year |-> NoneInt,
      declared |-> TRUE, analysis_type |-> "",
      start_date |-> NoneInt, end_date |-> NoneInt] : vibe \in RouteVibeIds}

\* datetime.now() of the run
RouteNow == strptime(20261102)

InitRoutes ==
    /\ \E dk \in SvcDisks : Constructed(dk)
    /\ \E catalog \in RouteCatalogs : VibesLoaded(catalog)
    /\ scored = NoScore
    /\ answered = NoAnswer
    /\ pipeline = NoPipeline
    /\ threads = NoThreads

\* one request is served
NextRoutes ==
    \/ /\ answered.route = "none"
       /\ \E request \in WhereRequests : FindWhere(request, RouteNow)
    \/ /\ answered.route = "none"
       /\ \E request \in WhenRequests : FindWhen(request, RouteNow)

SpecRoutes == InitRoutes /\ [][NextRoutes]_vars

----------------------------------------------------------------------------
(* SpecPipeline: a run of aggregate_points.py over drawn areas *)

\* the raw files drawn: a good download chunk, a file that is not JSON, a file
\* without properties.parameter and a file whose parameter map is empty
PipelineFiles ==
    {PointFile(0, 0, FirstChunk(1)), BadJson, NoParameterFile(0, 0),
     PointFile(0, 0, EmptyMap)}

\* an area: without raw/, or with at most MaxFiles raw files
PipelineDirs(i) ==
    {BareDir(DirNames[i])}
    \cup UNION {{PointDir(DirNames[i], files) : files \in [1..n -> PipelineFiles]} :
                  n \in 0..MaxFiles}

PipelineDisks ==
    UNION {{dk \in [1..n -> UNION {PipelineDirs(i) : i \in 1..n}] :
              \A i \in 1..n : dk[i] \in PipelineDirs(i)} :
           n \in 1..Len(DirNames)}

InitPipeline ==
    /\ \E dk \in PipelineDisks : ServiceDown(dk)
    /\ OutsideServiceIdle

NextPipeline ==
    \/ StartMain
    \/ AggregateArea
    \/ AggregatePointFile
    \/ CombineArea
    \/ ExitMain

SpecPipeline == InitPipeline /\ [][NextPipeline]_vars

----------------------------------------------------------------------------
(* SpecAdvisor: the application over a drawn location directory and a drawn *)
(* vibe dictionary, serving one drawn /advisor request                      *)

\* the parameters the advisors list
AdvisorParameterIds == <<"T2M", "PRECTOTCORR">>

\* the dictionary with the three advisors; without crop_advisor; with
\* fashion_stylist declared as a standard vibe; with a mood_predictor that
\* has no "parameters"
AdvisorCatalogs ==
    {("fashion_stylist" :> AdvisorVibe(AdvisorParameterIds)
      @@ "crop_advisor" :> AdvisorVibe(AdvisorParameterIds)
      @@ "mood_predictor" :> AdvisorVibe(AdvisorParameterIds)),
     ("fashion_stylist" :> AdvisorVibe(AdvisorParameterIds)
      @@ "mood_predictor" :> AdvisorVibe(AdvisorParameterIds)),
     ("fashion_stylist" :> StandardVibe(<<ParamConfig("T2M", 1, "low_is_better")>>)
      @@ "crop_advisor" :> AdvisorVibe(AdvisorParameterIds)
      @@ "mood_predictor" :> AdvisorVibe(AdvisorParameterIds)),
     ("fashion_stylist" :> AdvisorVibe(AdvisorParameterIds)
      @@ "crop_advisor" :> AdvisorVibe(AdvisorParameterIds)
      @@ "mood_predictor" :> [type |-> "advisor"])}

\* outputs/ empty; one location at (0, 1) with one January temperature; one
\* location whose second file is unparsable
AdvisorDisks ==
    {<<>>, <<PointDir("delhi", <<PointFile(0, 1, FirstChunk(1)), BadJson>>)>>}
    \cup {<<PointDir("delhi",
               <<PointFile(0, 1, [p \in {"T2M"} |-> (20230110 :> t)])>>)>> :
            t \in {10, 18, 25}}

\* request.additional_params: None or {}, and dicts with a crop_type that is
\* a string (str = TRUE) or a number
AdvisorAdditionalParams ==
    {EmptyMap,
     "crop_type" :> [str |-> TRUE, value |-> "Rice"],
     "crop_type" :> [str |-> TRUE, value |-> "banana"],
     "crop_type" :> [str |-> FALSE, value |-> "5"]}

\* instances of AdvisorRequest at (0, 1); February has no data
AdvisorRequests ==
    {[advisor_type |-> advisor_type, lat |-> 0, lon |-> 1, month |-> month,
      year |-> NoneInt, additional_params |-> additional_params] :
        advisor_type \in ADVISOR_FUNCTIONS \cup {"travel"},
        month \in {1, 2},
        additional_params \in AdvisorAdditionalParams}

\* the globals main.py sets at startup
AdvisorGlobals ==
    {[vibe_engine |-> TRUE, data_service |-> TRUE],
     [vibe_engine |-> TRUE, data_service |-> FALSE],
     [vibe_engine |-> FALSE, data_service |-> FALSE]}

InitAdvisor ==
    /\ \E dk \in AdvisorDisks : Constructed(dk)
    /\ \E catalog \in AdvisorCatalogs : VibesLoaded(catalog)
    /\ scored = NoScore
    /\ answered = NoAnswer
    /\ pipeline = NoPipeline
    /\ threads = NoThreads

\* one request is served
NextAdvisor ==
    /\ answered.route = "none"
    /\ \E initialized \in AdvisorGlobals, request \in AdvisorRequests,
          listed \in 0..1 :
          GetAdvisorRecommendations(initialized, request, listed)

SpecAdvisor == InitAdvisor /\ [][NextAdvisor]_vars

----------------------------------------------------------------------------
(* pipeline/config.py: iter_year_chunks, a generator.  A range(a, b) is the  *)
(* pair <<a, b>>, its years a..b-1.                                          *)

\* the generator object iter_year_chunks(start_year, end_year, span) before
\* its first next(); yielded: the ranges it has yielded
IterYearChunks(start_year, end_year, span) ==
    pipeline = [pc |-> "chunks", start_year |-> start_year,
                end_year |-> end_year, span |-> span,
                current |-> start_year, yielded |-> <<>>]

\* min(a, b) of Python on integers
IntMin(a, b) == IF b < a THEN b ELSE a

\* next() while current <= end_year: one more range is yielded
YieldChunk ==
    /\ pipeline.pc = "chunks"
    /\ Len(pipeline.yielded) < MaxChunks
    /\ pipeline.current <= pipeline.end_year
    /\ LET chunk_end == IntMin(pipeline.current + pipeline.span - 1,
                               pipeline.end_year)
       IN  pipeline' = [pipeline EXCEPT
                          !.yielded = Append(pipeline.yielded,
                                             <<pipeline.current, chunk_end + 1>>),
                          !.current = chunk_end + 1]
    /\ UNCHANGED <<service_vars, vibes, scored, answered, threads>>

\* next() once current > end_year: the generator returns (StopIteration)
ReturnChunks ==
    /\ pipeline.pc = "chunks"
    /\ pipeline.current > pipeline.end_year
    /\ pipeline' = [pipeline EXCEPT !.pc = "exhausted"]
    /\ UNCHANGED <<service_vars, vibes, scored, answered, threads>>

----------------------------------------------------------------------------
(* SpecChunks: one generator over drawn years and a drawn span, consumed by  *)
(* the for loop of run(); SpecChunksFair: the loop keeps calling next()      *)

ChunkYears == 2020..2023

ChunkSpans == {-1, 0, 1, 2, 3, 5}

InitChunks ==
    /\ \E dk \in {<<>>} : ServiceDown(dk)
    /\ vibes = EmptyMap
    /\ scored = NoScore
    /\ answered = NoAnswer
    /\ threads = NoThreads
    /\ \E start_year \in ChunkYears, end_year \in ChunkYears, span \in ChunkSpans :
          IterYearChunks(start_year, end_year, span)

NextChunks ==
    \/ YieldChunk
    \/ ReturnChunks

SpecChunks == InitChunks /\ [][NextChunks]_vars

SpecChunksFair == SpecChunks /\ WF_vars(NextChunks)

----------------------------------------------------------------------------
(* SpecIndex: the construction of the data service over drawn directories   *)
(* of outputs/, in the order iterdir() yields them                          *)

\* the raw/ directories drawn for directory i: empty; one good file; a first
\* file that is unparsable or has no geometry.coordinates, alone or followed
\* by a good one; a good file followed by an unparsable one
IndexFileSets(i) ==
    {<<>>,
     <<PointFile(0, i, FirstChunk(i))>>,
     <<PointFile(i, 0, FirstChunk(i))>>,
     <<BadJson>>,
     <<NoGeometryFile(FirstChunk(i))>>,
     <<BadJson, PointFile(0, i, FirstChunk(i))>>,
     <<PointFile(0, i, FirstChunk(i)), BadJson>>}

IndexDirs(i) ==
    {BareDir(DirNames[i]), OtherDir(DirNames[i], <<PointFile(0, i, FirstChunk(i))>>)}
    \cup {PointDir(DirNames[i], files) : files \in IndexFileSets(i)}

IndexDisks ==
    UNION {{dk \in [1..n -> UNION {IndexDirs(i) : i \in 1..n}] :
              \A i \in 1..n : dk[i] \in IndexDirs(i)} :
           n \in 0..Len(DirNames)}

InitIndex ==
    /\ \E dk \in IndexDisks : ServiceDown(dk)
    /\ OutsideServiceIdle

NextIndex == LoadAvailableLocations

SpecIndex == InitIndex /\ [][NextIndex]_vars

----------------------------------------------------------------------------
(* SpecRace: request threads inside _load_location_data at the same time,   *)
(* their statements interleaved in any order                               *)

Workers == {1, 2}

InitRace ==
    /\ \E dk \in SvcDisks : Constructed(dk)
    /\ vibes = EmptyMap
    /\ scored = NoScore
    /\ answered = NoAnswer
    /\ pipeline = NoPipeline
    /\ threads = [t \in Workers |-> IdleThread]

NextRace ==
    \/ \E t \in Workers, i \in 1..Len(DirNames) : BeginLoad(t, DirNames[i])
    \/ \E t \in Workers : CheckCache(t)
    \/ \E t \in Workers : ReturnCached(t)
    \/ \E t \in Workers : LoadFile(t)
    \/ \E t \in Workers : StoreLoaded(t)

SpecRace == InitRace /\ [][NextRace]_vars

----------------------------------------------------------------------------
(* SpecMonthly: compute_monthly_statistics on a drawn daily table and a     *)
(* drawn parameter configuration                                           *)

MonthlyColumns ==
    <<"T2M", "RH2M", "ALLSKY_SFC_SW_DWN", "CLRSKY_SFC_SW_DWN">>

\* the readings drawn for a column on 2023-01-10 and 2023-01-20; <<>>: the
\* table has no such column
MonthlyReadings(p) ==
    CASE p = "T2M" ->
           {<<>>, <<FInt(18), FInt(25)>>, <<FInt(18), FInt(18)>>,
            <<FInt(25), FInt(25)>>, <<FInt(20), FInt(20)>>,
            <<FInt(19), FInt(20)>>, <<FInt(30), FInt(30)>>,
            <<NaN, NaN>>, <<NaN, FInt(17)>>}
      [] p = "RH2M" ->
           {<<>>, <<FInt(0), FInt(0)>>, <<FInt(50), FInt(50)>>,
            <<FInt(33), FInt(34)>>, <<FInt(120), FInt(120)>>, <<NaN, NaN>>}
      [] p = "ALLSKY_SFC_SW_DWN" ->
           {<<>>, <<FInt(2), FInt(2)>>, <<FInt(0), FInt(0)>>,
            <<FInt(1), FInt(1)>>, <<FInt(6), FInt(6)>>, <<NaN, NaN>>}
      [] p = "CLRSKY_SFC_SW_DWN" ->
           {<<>>, <<FInt(4), FInt(4)>>, <<FInt(3), FInt(3)>>,
            <<FInt(0), FInt(0)>>, <<NaN, NaN>>}

\* the daily table of the drawn readings; with `later`, a third row on
\* 2023-03-05 without any reading, so that February and March are rows too
DailyTable(readings, later) ==
    LET columns == {p \in DOMAIN readings : readings[p] # <<>>}
        dates == IF columns = {} THEN {}
                 ELSE {20230110, 20230120}
                      \cup (IF later THEN {20230305} ELSE {})
    IN  [date \in dates |->
            [p \in columns |->
                IF date = 20230110 THEN readings[p][1]
                ELSE IF date = 20230120 THEN readings[p][2]
                ELSE NaN]]

MonthlyTables ==
    {DailyTable(readings, later) :
        readings \in {r \in [{MonthlyColumns[i] : i \in 1..Len(MonthlyColumns)}
                              -> UNION {MonthlyReadings(MonthlyColumns[i]) :
                                          i \in 1..Len(MonthlyColumns)}] :
                        \A i \in 1..Len(MonthlyColumns) :
                           r[MonthlyColumns[i]] \in MonthlyReadings(MonthlyColumns[i])},
        later \in BOOLEAN}

\* config.parameters: the listed columns, all with one aggregation
Configured_(ids, aggregation) ==
    [i \in 1..Len(ids) |-> [id |-> ids[i], aggregation |-> aggregation]]

\* the configurations drawn for a table: its own columns or all four
MonthlyConfigs(daily_df) ==
    LET own == SelectSeq(MonthlyColumns,
                  LAMBDA p : DOMAIN daily_df # {} /\ p \in Columns(daily_df))
    IN  {Configured_(own, aggregation) :
            aggregation \in {"mean", "MEAN", "max", "median"}}
        \cup {Configured_(MonthlyColumns, "mean")}

InitMonthly ==
    /\ \E dk \in {<<>>} : ServiceDown(dk)
    /\ OutsideServiceIdle

NextMonthly ==
    /\ pipeline.pc = "idle"
    /\ \E daily_df \in MonthlyTables :
          \E parameters \in MonthlyConfigs(daily_df) :
             ComputeMonthlyStatistics(daily_df, parameters)

SpecMonthly == InitMonthly /\ [][NextMonthly]_vars

----------------------------------------------------------------------------
(* SpecMerge: _load_location_data on one location with drawn raw files     *)

MergeParameterIds == {"T2M", "RH2M"}

MergeDateKeys == {20230110, 20230120}

MergeValues == {10, 20}

\* properties.parameter holding the readings `value` of the (parameter, date)
\* pairs in `entries`
ParameterOf(entries, value) ==
    [p \in {e[1] : e \in entries} |->
        [d \in {e[2] : e \in {x \in entries : x[1] = p}} |-> value[<<p, d>>]]]

\* every properties.parameter of at most MaxEntries readings
MergeChunks ==
    UNION {{ParameterOf(entries, value) : value \in [entries -> MergeValues]} :
             entries \in {E \in SUBSET (MergeParameterIds \X MergeDateKeys) :
                            Cardinality(E) <= MaxEntries}}

\* the service over one location of 1..MaxFiles drawn chunks
InitMerge ==
    \E n \in 1..MaxFiles :
        \E chunks \in [1..n -> MergeChunks] :
            /\ Constructed(<<PointDir("delhi",
                  [j \in 1..n |-> PointFile(0, 0, chunks[j])])>>)
            /\ OutsideServiceIdle

NextMerge == LoadLocationData("delhi")

SpecMerge == InitMerge /\ [][NextMerge]_vars

----------------------------------------------------------------------------
(* SpecRound: one location with drawn raw files, loaded and then queried    *)
(* with no time filter                                                     *)

RoundEntries == {<<"T2M", 20230110>>, <<"T2M", 20230120>>, <<"RH2M", 20230110>>}

RoundValues == {10, 20}

\* every properties.parameter of at most MaxEntries readings
RoundChunks ==
    UNION {{ParameterOf(entries, value) : value \in [entries -> RoundValues]} :
             entries \in {E \in SUBSET RoundEntries : Cardinality(E) <= MaxEntries}}

InitRound ==
    \E n \in 1..MaxFiles :
        \E chunks \in [1..n -> RoundChunks] :
            /\ Constructed(<<PointDir("delhi",
                  [j \in 1..n |-> PointFile(0, 0, chunks[j])])>>)
            /\ OutsideServiceIdle

NextRound ==
    \/ LoadLocationData("delhi")
    \/ \E parameter_id \in {"T2M", "RH2M"} :
          GetValueAtPoint(parameter_id, 0, 0, NoneInt, NoneInt, NoneDt, NoneDt)

SpecRound == InitRound /\ [][NextRound]_vars

----------------
(* Vocabulary of the properties *)

\* a get_value_at_point call has returned
Served == ret.returned /\ call.op = "get_value_at_point"

\* the location a request at call.lat, call.lon is resolved to
ServedLocation == _find_nearest_location(self, call.lat, call.lon)

\* the call reached the aggregation: the location's store holds the parameter
HasSeries ==
    /\ ServedLocation \in DOMAIN cache
    /\ call.parameter_id \in DOMAIN cache[ServedLocation].parameters

\* the daily series the call aggregated
ServedSeries == cache[ServedLocation].parameters[call.parameter_id]

\* a date as the number YYYYMMDD, the order of the calendar
DateNumber(dt) == dt.year * 10000 + dt.month * 100 + dt.day

YearOfKey(date_str) == date_str \div 10000

MonthOfKey(date_str) == (date_str \div 100) % 100

MinKey(series) == CHOOSE k \in DOMAIN series : \A j \in DOMAIN series : k <= j

MaxKey(series) == CHOOSE k \in DOMAIN series : \A j \in DOMAIN series : j <= k

\* value is the arithmetic mean of the series' values at keys, NoData if none
IsMeanOf(value, series, keys) ==
    IF keys = {} THEN value = NoneVal
    ELSE /\ value.kind = "float"
         /\ value.den > 0
         /\ value.num * Cardinality(keys) = SumOver(series, keys) * value.den

\* what the same call returns with other time-filter arguments
ValueWith(month, year, start_date, end_date) ==
    get_value_at_point(self, call.parameter_id, call.lat, call.lon,
                       month, year, start_date, end_date).ret

\* a requested bound pulled into [MinKey, MaxKey]; as requested when the
\* series has no dates
ClampedNumber(bound, series) ==
    IF DOMAIN series = {} THEN DateNumber(bound)
    ELSE IF DateNumber(bound) < MinKey(series) THEN MinKey(series)
    ELSE IF DateNumber(bound) > MaxKey(series) THEN MaxKey(series)
    ELSE DateNumber(bound)

\* the request names a year outside the years of the series
YearOutOfRange ==
    /\ call.year # NoneInt
    /\ DOMAIN ServedSeries # {}
    /\ \/ call.year < YearOfKey(MinKey(ServedSeries))
       \/ call.year > YearOfKey(MaxKey(ServedSeries))

----------------------------------------------------------------------------
(* Properties of the aggregation policy, checked under SpecAgg *)

\* C1: with a month and a year outside [minYear, maxYear] of the series,
\* get_value_at_point returns what it returns for the month with no year:
\* the mean of that month's entries of all years.
C1_YearOutsideRangeIsDropped ==
    (Served /\ HasSeries /\ call.month # NoneInt /\ YearOutOfRange)
    => /\ ret.value = ValueWith(call.month, NoneInt, call.start_date, call.end_date)
       /\ IsMeanOf(ret.value, ServedSeries,
                   {k \in DOMAIN ServedSeries : MonthOfKey(k) = call.month})

\* C1 happens: January of 2022 is asked of a series with different January
\* readings in 2023 and 2025, and their mean 15 comes back.
C1_Witness ==
    /\ Served /\ HasSeries
    /\ call.month = 1 /\ call.year = 2022
    /\ DOMAIN ServedSeries = {20230110, 20250110}
    /\ ServedSeries[20230110] = 10 /\ ServedSeries[20250110] = 20
    /\ ret.value = Float(15, 1)

\* the requested range is inverted once both bounds are clamped
InvertedAfterClamping ==
    /\ call.month = NoneInt
    /\ Given(call.start_date) /\ Given(call.end_date)
    /\ ClampedNumber(call.start_date, ServedSeries)
         > ClampedNumber(call.end_date, ServedSeries)

\* C2: a date-range request (no month) whose clamped start is later than its
\* clamped end returns what the call returns with no time filter: the mean
\* of the entire series.
C2_InvertedRangeIsOverallMean ==
    (Served /\ HasSeries /\ InvertedAfterClamping)
    => /\ ret.value = ValueWith(NoneInt, NoneInt, NoneDt, NoneDt)
       /\ IsMeanOf(ret.value, ServedSeries, DOMAIN ServedSeries)

\* C2 happens: start after the data and end inside it, on a series of two
\* different readings whose overall mean comes back.
C2_Witness ==
    /\ Served /\ HasSeries /\ InvertedAfterClamping
    /\ call.start_date = strptime(20240601)
    /\ call.end_date = strptime(20230110)
    /\ DOMAIN ServedSeries = {20230110, 20250220}
    /\ ServedSeries[20230110] = 10 /\ ServedSeries[20250220] = 20
    /\ ret.value = Float(15, 1)

\* date-range mode: no month, and a start or an end
DateRangeMode ==
    call.month = NoneInt /\ (Given(call.start_date) \/ Given(call.end_date))

\* a requested bound lies before the earliest or after the latest date
BoundOutsideData ==
    /\ DOMAIN ServedSeries # {}
    /\ \E bound \in {call.start_date, call.end_date} :
          /\ Given(bound)
          /\ \/ DateNumber(bound) < MinKey(ServedSeries)
             \/ DateNumber(bound) > MaxKey(ServedSeries)

\* the keys of the series within [clamp(start), clamp(end)]; a bound that was
\* not requested bounds nothing
InClampedInterval ==
    {k \in DOMAIN ServedSeries :
        /\ Given(call.start_date)
             => ClampedNumber(call.start_date, ServedSeries) <= k
        /\ Given(call.end_date)
             => k <= ClampedNumber(call.end_date, ServedSeries)}

\* C3 as stated: in date-range mode with a bound outside the data, the
\* result is the mean of the entries within [clamp(start), clamp(end)].
C3_AsStated ==
    (Served /\ HasSeries /\ DateRangeMode /\ BoundOutsideData)
    => IsMeanOf(ret.value, ServedSeries, InClampedInterval)

\* C3, amended: in date-range mode the bounds are clamped to
\* [minDate, maxDate] and, unless the clamped start is later than the clamped
\* end, the result is the mean of the entries within [clamp(start), clamp(end)].
C3_ClampedIntervalMean ==
    (Served /\ HasSeries /\ DateRangeMode /\ ~InvertedAfterClamping)
    => IsMeanOf(ret.value, ServedSeries, InClampedInterval)

\* C3 happens: a range that ends before the data begins is pulled to the
\* earliest date, whose reading comes back.
C3_Witness ==
    /\ Served /\ HasSeries /\ DateRangeMode /\ BoundOutsideData
    /\ ~Given(call.start_date)
    /\ call.end_date = strptime(20221231)
    /\ DOMAIN ServedSeries = {20230110, 20250110}
    /\ ServedSeries[20230110] = 10 /\ ServedSeries[20250110] = 20
    /\ ret.value = Float(10, 1)

\* the entries of the requested month, of the requested year when one is
\* requested and lies within the years of the series
MonthSelection ==
    {k \in DOMAIN ServedSeries :
        /\ MonthOfKey(k) = call.month
        /\ (call.year # NoneInt /\ ~YearOutOfRange) => YearOfKey(k) = call.year}

\* C4: the time filter is applied in priority order.  With a month the
\* result is that of the month and effective year, whatever start_date and
\* end_date are; the range is used only without a month; with neither the
\* result is the mean of the entire series.
C4_FilterPriority ==
    (Served /\ HasSeries)
    => /\ call.month # NoneInt
          => /\ ret.value = ValueWith(call.month, call.year, NoneDt, NoneDt)
             /\ IsMeanOf(ret.value, ServedSeries, MonthSelection)
       /\ DateRangeMode
          => IF InvertedAfterClamping
             THEN IsMeanOf(ret.value, ServedSeries, DOMAIN ServedSeries)
             ELSE IsMeanOf(ret.value, ServedSeries, InClampedInterval)
       /\ (call.month = NoneInt /\ ~DateRangeMode)
          => IsMeanOf(ret.value, ServedSeries, DOMAIN ServedSeries)

\* C4 happens: January is requested together with a range that holds no
\* entry of the series, and January's mean comes back.
C4_Witness ==
    /\ Served /\ HasSeries
    /\ call.month = 1 /\ call.year = NoneInt
    /\ call.start_date = strptime(20260101)
    /\ call.end_date = strptime(20260101)
    /\ DOMAIN ServedSeries = {20230110, 20250110, 20250220}
    /\ ServedSeries[20230110] = 10 /\ ServedSeries[20250110] = 20
    /\ ret.value = Float(15, 1)

\* a date-range request (no month) with both bounds, in order, of a series
\* that has dates
OrderedRange ==
    /\ call.month = NoneInt
    /\ Given(call.start_date) /\ Given(call.end_date)
    /\ DtLeq(call.start_date, call.end_date)
    /\ DOMAIN ServedSeries # {}

\* the bound as get_value_at_point clamps it for the served series
ClampedBound(bound) ==
    Clamp(bound, AvailableRange(ServedSeries).min_date,
          AvailableRange(ServedSeries).max_date)

\* C27: clamping preserves order.  For a request with start_date <= end_date
\* the clamped bounds are in order, so the result is the mean of the entries
\* between them and never the full-series fallback; a range entirely before
\* the data returns the value of the earliest date, a range entirely after
\* it the value of the latest date.
C27_ClampingPreservesOrder ==
    (Served /\ HasSeries /\ OrderedRange)
    => /\ DtLeq(ClampedBound(call.start_date), ClampedBound(call.end_date))
       /\ ret.value = _aggregate_date_range(ServedSeries,
                                            ClampedBound(call.start_date),
                                            ClampedBound(call.end_date))
       /\ IsMeanOf(ret.value, ServedSeries, InClampedInterval)
       /\ DateNumber(call.end_date) < MinKey(ServedSeries)
            => ret.value = FInt(ServedSeries[MinKey(ServedSeries)])
       /\ DateNumber(call.start_date) > MaxKey(ServedSeries)
            => ret.value = FInt(ServedSeries[MaxKey(ServedSeries)])

\* C27 happens: a range of one day after the last date of a series of two
\* different readings, and the latest reading comes back, not the mean 15.
C27_Witness ==
    /\ Served /\ HasSeries /\ OrderedRange
    /\ call.start_date = strptime(20260101)
    /\ call.end_date = strptime(20260101)
    /\ DOMAIN ServedSeries = {20230110, 20250220}
    /\ ServedSeries[20230110] = 10 /\ ServedSeries[20250220] = 20
    /\ ret.value = Float(20, 1)

\* a month and a year within [minYear, maxYear] of the series are requested
YearWithinSpan ==
    /\ call.month # NoneInt /\ call.year # NoneInt
    /\ DOMAIN ServedSeries # {}
    /\ YearOfKey(MinKey(ServedSeries)) <= call.year
    /\ call.year <= YearOfKey(MaxKey(ServedSeries))

\* the entries of the requested month in the requested year
OfMonthAndYear ==
    {k \in DOMAIN ServedSeries :
        MonthOfKey(k) = call.month /\ YearOfKey(k) = call.year}

\* C28: the year fallback is taken only for a year outside
\* [minYear, maxYear].  For a year within the span the result is the mean of
\* the entries of that month in that year, and None when there are none (a
\* gap year), whatever the month holds in other years.
C28_GapYearIsNone ==
    (Served /\ HasSeries /\ YearWithinSpan)
    => /\ IsMeanOf(ret.value, ServedSeries, OfMonthAndYear)
       /\ OfMonthAndYear = {} => ret.value = NoneVal

\* C28 happens: January 2024 is asked of a series with January readings in
\* 2023 and 2025 only, and None comes back.
C28_Witness ==
    /\ Served /\ HasSeries /\ YearWithinSpan
    /\ call.month = 1 /\ call.year = 2024
    /\ DOMAIN ServedSeries = {20230110, 20250110}
    /\ ServedSeries[20230110] = 10 /\ ServedSeries[20250110] = 20
    /\ ret.value = NoneVal

\* the series with the entries holding the fill value taken out
WithoutFill(series) ==
    [k \in {j \in DOMAIN series : series[j] # FILL_VALUE} |-> series[k]]

\* C6: no aggregate includes a fill value: the result is that of the series
\* with its fill-valued entries missing.
C6_NoFillValueInAggregate ==
    (Served /\ HasSeries)
    => ret.value = Aggregate(WithoutFill(ServedSeries), call.month, call.year,
                             call.start_date, call.end_date)

----------------------------------------------------------------------------
(* Properties of the service, checked under Spec *)

\* the keys the time filter of the call selects from the served series
Selection ==
    IF call.month # NoneInt THEN MonthSelection
    ELSE IF DateRangeMode /\ ~InvertedAfterClamping THEN InClampedInterval
    ELSE DOMAIN ServedSeries

\* what get_value_at_point returns at the coordinates of indexed location i
\* under the parameter and time filter of the call
ValueAtLocation(i) ==
    get_value_at_point(self, call.parameter_id,
                       locations_cache[i].lat, locations_cache[i].lon,
                       call.month, call.year,
                       call.start_date, call.end_date).ret

\* C5: data absence is a value.  get_value_at_point returns None when the
\* index is empty, when the nearest location has no series for the parameter
\* and when the time filter selects no entry; get_values_in_radius returns a
\* list of valued tuples with none at the coordinates of such a location.
C5_AbsenceIsNone ==
    /\ (Served /\ Len(locations_cache) = 0) => ret.value = NoneVal
    /\ (Served /\ ServedLocation \in DOMAIN cache /\ ~HasSeries)
          => ret.value = NoneVal
    /\ (Served /\ HasSeries /\ Selection = {}) => ret.value = NoneVal
    /\ (ret.returned /\ call.op = "get_values_in_radius")
          => /\ \A n \in 1..Len(ret.results) : ret.results[n][3] # NoneVal
             /\ \A i \in 1..Len(locations_cache) :
                   ValueAtLocation(i) = NoneVal
                   => \A n \in 1..Len(ret.results) :
                         <<ret.results[n][1], ret.results[n][2]>>
                            # <<locations_cache[i].lat, locations_cache[i].lon>>

\* C5 happens: humidity is asked within 111 km of (0, 0); both locations are
\* in range, the first has no humidity series, and only the second is listed.
C5_Witness ==
    /\ ret.returned /\ call.op = "get_values_in_radius"
    /\ call.parameter_id = "RH2M" /\ call.radius_km = 111
    /\ call.lat = 0 /\ call.lon = 0
    /\ Len(locations_cache) = 2
    /\ locations_cache[1].lat = 0 /\ locations_cache[1].lon = 1
    /\ "delhi" \in DOMAIN cache /\ "RH2M" \notin DOMAIN cache["delhi"].parameters
    /\ ret.results = <<<<1, 0, Float(50, 1)>>>>

\* the squared degree-distance of indexed location i from the query
QueryDistance2(i) ==
    (call.lat - locations_cache[i].lat) * (call.lat - locations_cache[i].lat)
    + (call.lon - locations_cache[i].lon) * (call.lon - locations_cache[i].lon)

\* C7: for a non-empty index _find_nearest_location returns a location at
\* minimal distance, and of several at that distance the first in index order.
C7_NearestFirstMinimum ==
    (ret.returned /\ call.op = "_find_nearest_location"
       /\ Len(locations_cache) > 0)
    => \E r \in 1..Len(locations_cache) :
          /\ ret.name = locations_cache[r].name
          /\ \A i \in 1..Len(locations_cache) :
                /\ QueryDistance2(r) <= QueryDistance2(i)
                /\ i < r => QueryDistance2(r) < QueryDistance2(i)

\* C7 happens: two locations at different places are equally far from the
\* query, and the first indexed is returned.
C7_Witness ==
    /\ ret.returned /\ call.op = "_find_nearest_location"
    /\ Len(locations_cache) = 2
    /\ locations_cache[1].lat # locations_cache[2].lat
    /\ QueryDistance2(1) = QueryDistance2(2)
    /\ ret.name = locations_cache[1].name

\* a _load_location_data call for an indexed location has returned
Loaded ==
    /\ ret.returned /\ call.op = "_load_location_data"
    /\ call.location_name \in Names(locations_cache)

\* C8 as stated: every call after the first for a location returns the cached
\* store without opening a file.
C8_AsStated ==
    (Loaded /\ ret.repeat)
    => /\ ret.opened = 0
       /\ call.location_name \in DOMAIN cache
       /\ ret.store = cache[call.location_name]

\* C8, amended: for a location whose files all parse, every call after the
\* first returns the cached store without opening a file; a location with a
\* file that does not parse is never cached, and every call for it opens its
\* files again and returns None.
C8_CachedAfterFirstLoad ==
    Loaded
    => IF call.location_name \in DOMAIN cache
       THEN /\ ret.store = cache[call.location_name]
            /\ ret.repeat => ret.opened = 0
       ELSE ret.store = NoneStore /\ ret.opened > 0

\* C8 happens: a second call for a location returns its two-file store from
\* the cache, no file opened.
C8_Witness ==
    /\ Loaded /\ ret.repeat
    /\ ret.opened = 0
    /\ ret.store # NoneStore
    /\ Len(Lookup(locations_cache, call.location_name).files) = 2
    /\ ret.store = cache[call.location_name]

\* the directory of an indexed location holds a file that is not valid JSON
\* or lacks properties.parameter
HasBadFile(location_name) ==
    \E i \in 1..Len(disk) :
        /\ disk[i].name = location_name
        /\ \E j \in 1..Len(disk[i].files) :
              ~disk[i].files[j].json \/ ~disk[i].files[j].has_parameter

\* a name no directory has
UnknownLocation == "nowhere"

\* C10 as stated: the outcome for a location with a corrupt file differs from
\* the outcome for an unknown location and, through get_value_at_point, from
\* the outcome for a parameter without data.
C10_AsStated ==
    /\ (Loaded /\ HasBadFile(call.location_name))
          => ret.store # _load_location_data(self, UnknownLocation).ret
    /\ (Served /\ HasBadFile(ServedLocation)) => ret.value # NoneVal

\* C10, amended: when a source file of the location does not parse,
\* _load_location_data returns None and caches nothing, the same None it
\* returns for an unknown location, and get_value_at_point returns the None
\* it returns for a parameter without data.
C10_CorruptFileYieldsNone ==
    /\ (Loaded /\ HasBadFile(call.location_name))
          => /\ ret.store = NoneStore
             /\ ret.store = _load_location_data(self, UnknownLocation).ret
             /\ call.location_name \notin DOMAIN cache
    /\ (Served /\ HasBadFile(ServedLocation)) => ret.value = NoneVal

\* C10 happens: the second file of a location is unparsable; the call opens
\* both files and returns None.
C10_Witness ==
    /\ Loaded /\ HasBadFile(call.location_name)
    /\ ret.opened = 2
    /\ ret.store = NoneStore
    /\ call.location_name \notin DOMAIN cache

----------------------------------------------------------------------------
(* Properties of the radius query, checked under Spec *)

\* a get_values_in_radius call has returned
RadiusServed == ret.returned /\ call.op = "get_values_in_radius"

\* indexed location i is no farther from the center of the call than
\* radius_km / 111 degrees
InRadiusOfCall(i) ==
    QueryDistance2(i) * 111 * 111 <= call.radius_km * call.radius_km

\* the tuples of the locations from i on that are in the radius and have an
\* aggregate, in index order
RECURSIVE TuplesFrom(_)
TuplesFrom(i) ==
    IF i > Len(locations_cache) THEN <<>>
    ELSE IF InRadiusOfCall(i) /\ ValueAtLocation(i) # NoneVal
    THEN <<<<locations_cache[i].lat, locations_cache[i].lon, ValueAtLocation(i)>>>>
            \o TuplesFrom(i + 1)
    ELSE TuplesFrom(i + 1)

OwnValue(i) ==
    LET location_data == _load_location_data(self, locations_cache[i].name).ret
    IN  IF location_data = NoneStore THEN NoneVal
        ELSE IF call.parameter_id \notin DOMAIN location_data.parameters
        THEN NoneVal
        ELSE Aggregate(location_data.parameters[call.parameter_id],
                       call.month, call.year, call.start_date, call.end_date)

\* the tuples of the locations from i on that are in the radius and whose own
\* series has an aggregate, in index order
RECURSIVE OwnTuplesFrom(_)
OwnTuplesFrom(i) ==
    IF i > Len(locations_cache) THEN <<>>
    ELSE IF InRadiusOfCall(i) /\ OwnValue(i) # NoneVal
    THEN <<<<locations_cache[i].lat, locations_cache[i].lon, OwnValue(i)>>>>
            \o OwnTuplesFrom(i + 1)
    ELSE OwnTuplesFrom(i + 1)

\* C29: for every indexed location L within the radius, the value of the
\* tuple get_values_in_radius returns for L is the aggregate of L's own daily
\* series, also when another indexed location has the coordinates of L.
C29_OwnSeriesPerLocation ==
    RadiusServed => ret.results = OwnTuplesFrom(1)

----------------------------------------------------------------------------
(* Properties of /advisor, checked under SpecAdvisor *)

\* a request to /advisor has been answered
AdvisorAnswered == answered.route = "advisor"

\* C24: the outcome of POST /advisor is decided by the first failing stage:
\* an advisor_type outside {fashion, crop, mood} gives 400 before any
\* service accessor is called, also with the services uninitialized; a
\* data-service exception gives 500 "Error retrieving weather data"; an
\* empty parameter-value map gives 404 "No data available"; otherwise the
\* response is 200 and lists at least one recommendation.
C24_FirstFailingStage ==
    AdvisorAnswered
    => IF answered.request.advisor_type \notin ADVISOR_FUNCTIONS
       THEN /\ answered.status = 400
            /\ answered.detail = "Unknown advisor type"
            /\ answered.stage = "type"
       ELSE IF answered.stage = "data"
       THEN /\ answered.status = 500
            /\ answered.detail = "Error retrieving weather data"
       ELSE IF answered.stage = "empty"
       THEN /\ answered.status = 404
            /\ answered.detail = "No data available for the specified location"
       ELSE /\ answered.status = 200
            /\ Len(answered.recommendations) >= 1

----------------------------------------------------------------------------
(* Properties of iter_year_chunks, checked under SpecChunksFair *)

\* the generator has returned
Exhausted == pipeline.pc = "exhausted"

\* the ranges yielded so far are non-empty, of at most span years, within
\* [start_year, end_year], and consecutive from start_year on: ascending and
\* pairwise disjoint without a gap
YieldedInOrder ==
    LET yielded == pipeline.yielded
    IN  \A k \in 1..Len(yielded) :
           /\ yielded[k][1] < yielded[k][2]
           /\ yielded[k][2] - yielded[k][1] <= pipeline.span
           /\ yielded[k][2] - 1 <= pipeline.end_year
           /\ yielded[k][1] = IF k = 1 THEN pipeline.start_year
                              ELSE yielded[k - 1][2]

\* the ranges yielded reach end_year; none when start_year > end_year
CoversAll ==
    IF pipeline.start_year > pipeline.end_year
    THEN pipeline.yielded = <<>>
    ELSE /\ pipeline.yielded # <<>>
         /\ pipeline.yielded[Len(pipeline.yielded)][2] = pipeline.end_year + 1

\* C26: for every start_year, end_year and span the generator yields
\* consecutive non-empty ranges of at most span years, pairwise disjoint and
\* ascending, that together cover [start_year, end_year] exactly (nothing
\* when start_year > end_year), and then it terminates.
C26_ChunksCoverAndTerminate ==
    /\ [](YieldedInOrder)
    /\ [](Exhausted => CoversAll)
    /\ <>Exhausted

----------------------------------------------------------------------------
(* Properties of the location index, checked under SpecIndex *)

\* the index has been built
IndexBuilt == ret.returned /\ call.op = "_load_available_locations"

\* directory i is a point directory whose raw/ has a first JSON file with
\* readable geometry.coordinates
Indexable(i) ==
    /\ disk[i].point /\ disk[i].has_raw
    /\ Len(disk[i].files) > 0
    /\ disk[i].files[1].json /\ disk[i].files[1].geometry

\* C30: the index holds every indexable directory, with
\* lat = coordinates[1] and lon = coordinates[0] of its first file, and no
\* other directory: a directory whose first file is unparsable or lacks
\* geometry.coordinates is left out and prevents no other directory from
\* being indexed.
C30_EveryValidDirectoryIndexed ==
    IndexBuilt
    => \A i \in 1..Len(disk) :
          IF Indexable(i)
          THEN \E k \in 1..Len(locations_cache) :
                  /\ locations_cache[k].name = disk[i].name
                  /\ locations_cache[k].lat = disk[i].files[1].coords[2]
                  /\ locations_cache[k].lon = disk[i].files[1].coords[1]
          ELSE disk[i].name \notin Names(locations_cache)

----------------------------------------------------------------------------
(* Properties of the merge, checked under SpecMerge *)

\* the files of the location's directory, in registered order
FilesOf(location_name) ==
    LET location_data == Lookup(locations_cache, location_name)
    IN  [j \in 1..Len(location_data.files) |->
            ReadFile(disk, location_data.files[j])]

\* the files that hold a reading of parameter p on date d
Holding(files, p, d) ==
    {j \in 1..Len(files) :
        p \in DOMAIN files[j].parameter /\ d \in DOMAIN files[j].parameter[p]}

\* the last of a non-empty set of positions
Last(positions) == CHOOSE j \in positions : \A k \in positions : k <= j

\* C9: the merged store of a location with several files holds, for each
\* parameter, the union of the files' date->value maps, and for a
\* (parameter, date) in more than one file the value of the file that comes
\* last in the registered file order.
C9_LastFileWins ==
    (Loaded /\ ret.store # NoneStore)
    => LET files == FilesOf(call.location_name)
           merged == ret.store.parameters
       IN  /\ DOMAIN merged = UNION {DOMAIN files[j].parameter : j \in 1..Len(files)}
           /\ \A p \in DOMAIN merged :
                 /\ DOMAIN merged[p] =
                       UNION {DOMAIN files[j].parameter[p] :
                                j \in {k \in 1..Len(files) :
                                         p \in DOMAIN files[k].parameter}}
                 /\ \A d \in DOMAIN merged[p] :
                       merged[p][d]
                          = files[Last(Holding(files, p, d))].parameter[p][d]

\* C9 happens: two files give different readings for the same day and the
\* first alone holds another day; the store has both days, the shared one
\* with the second file's reading.
C9_Witness ==
    /\ Loaded /\ ret.store # NoneStore
    /\ Len(FilesOf(call.location_name)) = 2
    /\ FilesOf(call.location_name)[1].parameter
          = [p \in {"T2M"} |-> (20230110 :> 10 @@ 20230120 :> 10)]
    /\ FilesOf(call.location_name)[2].parameter
          = [p \in {"T2M"} |-> (20230120 :> 20)]
    /\ ret.store.parameters
          = [p \in {"T2M"} |-> (20230110 :> 10 @@ 20230120 :> 20)]

----------------------------------------------------------------------------
(* Properties of the round trip, checked under SpecRound *)

\* the call had no time filter
Unfiltered ==
    /\ call.month = NoneInt /\ call.year = NoneInt
    /\ call.start_date = NoneDt /\ call.end_date = NoneDt

\* the files of the served location that hold the parameter of the call
FilesWithParameter ==
    {j \in 1..Len(FilesOf(ServedLocation)) :
        call.parameter_id \in DOMAIN FilesOf(ServedLocation)[j].parameter}

\* the sum of f over the set S of positions
RECURSIVE SumAt(_, _)
SumAt(f, S) ==
    IF S = {} THEN 0
    ELSE LET j == CHOOSE x \in S : TRUE IN f[j] + SumAt(f, S \ {j})

\* per file, the sum and the number of its readings of the parameter
FileSum ==
    [j \in FilesWithParameter |->
        LET series == FilesOf(ServedLocation)[j].parameter[call.parameter_id]
        IN  SumOver(series, DOMAIN series)]

FileCount ==
    [j \in FilesWithParameter |->
        Cardinality(DOMAIN FilesOf(ServedLocation)[j].parameter[call.parameter_id])]

\* the dates some file has a reading of the parameter for
DatesRead ==
    UNION {DOMAIN FilesOf(ServedLocation)[j].parameter[call.parameter_id] :
             j \in FilesWithParameter}

\* the reading of the last file that has the date
LastReading ==
    [d \in DatesRead |->
        FilesOf(ServedLocation)[Last(Holding(FilesOf(ServedLocation),
                                             call.parameter_id, d))]
            .parameter[call.parameter_id][d]]

\* some date of the parameter is in two files with different readings
RereadDate ==
    \E d \in DatesRead :
        \E j, k \in Holding(FilesOf(ServedLocation), call.parameter_id, d) :
            FilesOf(ServedLocation)[j].parameter[call.parameter_id][d]
               # FilesOf(ServedLocation)[k].parameter[call.parameter_id][d]

\* C11 as stated: with no time filter the value is the mean of every reading
\* of the parameter in every loaded file, a date in two files counted twice.
C11_AsStated ==
    (Served /\ Unfiltered /\ DatesRead # {})
    => /\ ret.value.kind = "float"
       /\ ret.value.num * SumAt(FileCount, FilesWithParameter)
             = SumAt(FileSum, FilesWithParameter) * ret.value.den

\* C11: after loading a location's files, get_value_at_point with no time
\* filter returns the mean of the parameter's readings taken once per date,
\* a date in several files with the reading of the last file that has it.
C11_RoundTripMeanOfMerged ==
    (Served /\ Unfiltered /\ FilesWithParameter # {})
    => IsMeanOf(ret.value, LastReading, DatesRead)

\* C11 happens: two files read the same day differently and the first has
\* another day; the value is the mean of the two days, (10 + 20) / 2.
C11_Witness ==
    /\ Served /\ Unfiltered /\ RereadDate
    /\ Len(FilesOf(ServedLocation)) = 2
    /\ FilesOf(ServedLocation)[1].parameter
          = [p \in {"T2M"} |-> (20230110 :> 10 @@ 20230120 :> 10)]
    /\ FilesOf(ServedLocation)[2].parameter
          = [p \in {"T2M"} |-> (20230120 :> 20)]
    /\ call.parameter_id = "T2M"
    /\ ret.value = Float(15, 1)

----------------------------------------------------------------------------
(* Properties of the vibe engine, checked under SpecScore *)

\* a calculate_vibe_score call has ended
ScoreCalled == scored.op = "calculate_vibe_score"

\* it was for a standard vibe of the catalog
OnStandardVibe ==
    /\ ScoreCalled
    /\ scored.vibe_id \in DOMAIN vibes
    /\ vibes[scored.vibe_id].type = "standard"

\* the configured parameters of the vibe
Configured == vibes[scored.vibe_id].parameters

\* the entries of the configuration whose parameter has a value
PresentEntries ==
    {i \in 1..Len(Configured) : Configured[i].id \in DOMAIN scored.parameter_values}

\* the individual score of a present entry
EntryScore(i) ==
    ScoreByMethod(Configured[i], scored.parameter_values[Configured[i].id]).score

\* the sum of the weights of the present entries
PresentWeight == SumAt([i \in PresentEntries |-> Configured[i].weight], PresentEntries)

\* the sum of score * weight over the present entries
PresentWeightedSum ==
    FSum([i \in PresentEntries |-> FMul(EntryScore(i), FInt(Configured[i].weight))],
         PresentEntries)

\* C13: calculate_vibe_score returns sum(score_i * weight_i) / sum(weight_i)
\* over the configured parameters that have a value; a parameter without a
\* value is in neither sum.
C13_WeightedOverPresent ==
    (OnStandardVibe /\ scored.outcome = "return" /\ PresentWeight # 0)
    => FMul(scored.value, FInt(PresentWeight)) = PresentWeightedSum

\* C13 happens: weights 1 and 3 with scores 100 and 0 give 25.0.
C13_Witness ==
    /\ OnStandardVibe /\ scored.outcome = "return"
    /\ Configured[1].weight = 1 /\ Configured[2].weight = 3
    /\ PresentEntries = {1, 2}
    /\ EntryScore(1) = FInt(100) /\ EntryScore(2) = FInt(0)
    /\ scored.value = FInt(25)

\* C14: whatever the configuration of a standard vibe and the parameter
\* values, the score returned by calculate_vibe_score is in [0, 100].
C14_ScoreInRange ==
    (OnStandardVibe /\ scored.outcome = "return")
    => FLeq(FInt(0), scored.value) /\ FLeq(scored.value, FInt(100))

\* the methods calculate_vibe_score knows
KnownMethods == {"low_is_better", "high_is_better", "optimal_range"}

\* C15: calculate_vibe_score fails with the unknown-method error whenever a
\* parameter of the configuration declares a method that is none of the
\* three, whether or not that parameter has a value.
C15_UnknownMethodAlwaysFails ==
    (OnStandardVibe
       /\ \E i \in 1..Len(Configured) : Configured[i].scoring \notin KnownMethods)
    => scored.outcome = "ValueError" /\ scored.error = "Unknown scoring method"

\* C16: calculate_vibe_score for a vibe id that is not in the catalog, or for
\* an advisor, raises before it looks up or scores any parameter value, and
\* returns no number.
C16_InvalidVibeRaisesFirst ==
    (ScoreCalled /\ ~OnStandardVibe)
    => /\ scored.outcome = "ValueError"
       /\ scored.value = NoneVal
       /\ scored.read = {}
       /\ scored.error = IF scored.vibe_id \in DOMAIN vibes
                         THEN "Advisors use custom logic, not scoring"
                         ELSE "Vibe not found"

\* C16 happens: an advisor is scored with values for all it lists.
C16_Witness ==
    /\ ScoreCalled
    /\ scored.vibe_id = "fashion"
    /\ vibes["fashion"].type = "advisor"
    /\ DOMAIN scored.parameter_values = {"T2M", "RH2M"}
    /\ scored.outcome = "ValueError"

\* a score_optimal_range call has returned
RangeScored == scored.op = "score_optimal_range"

\* the gap between value v and the band of the call, 0 inside it
GapOf(v) ==
    IF v < scored.args[2] THEN scored.args[2] - v
    ELSE IF v > scored.args[3] THEN v - scored.args[3]
    ELSE 0

\* what the call returns for value v in place of its own
RangeScoreOf(v) ==
    score_optimal_range(FInt(v), FInt(scored.args[2]), FInt(scored.args[3]),
                        FInt(scored.args[4]))

\* C20 as stated: 100 inside the band and, outside it, a value farther from
\* the band scores strictly less than a nearer one.
C20_AsStated ==
    RangeScored
    => /\ GapOf(scored.args[1]) = 0 => scored.value = FInt(100)
       /\ \A v \in ScoreValues :
             (GapOf(v) > 0 /\ GapOf(scored.args[1]) > GapOf(v))
             => FLess(scored.value, RangeScoreOf(v))

\* C20: for optimal_min < optimal_max and a positive falloff rate,
\* score_optimal_range is 100 for every value in the band and outside it
\* never increases as the value moves away from the band; two values far
\* enough both score 0.0.
C20_NeverIncreasing ==
    RangeScored
    => /\ GapOf(scored.args[1]) = 0 => scored.value = FInt(100)
       /\ \A v \in ScoreValues :
             GapOf(scored.args[1]) > GapOf(v)
             => FLeq(scored.value, RangeScoreOf(v))
       /\ FLeq(FInt(0), scored.value) /\ FLeq(scored.value, FInt(100))

\* C20 happens: the value is on a bound of the band and scores 100; and a
\* value 57 away from the band [0, 1] scores 0.0, as does one 56 away.
C20_Witness ==
    /\ RangeScored
    /\ scored.args = <<58, 0, 1, 2>>
    /\ scored.value = FInt(0)
    /\ RangeScoreOf(57) = FInt(0)
    /\ RangeScoreOf(1) = FInt(100)
    /\ FLess(RangeScoreOf(3), RangeScoreOf(2))

----------------------------------------------------------------------------
(* Properties of the routes, checked under SpecRoutes *)

\* a request to /where or /when has been answered
Answered == answered.route \in {"where", "when"}

\* the messages of the configuration errors of the engine
ConfigurationErrors ==
    {"Vibe not found", "Advisors use custom logic, not scoring",
     "Unknown scoring method"}

\* C17: a configuration error raised while a /where or /when request is
\* served (unknown vibe id, advisor passed for scoring, unsupported scoring
\* method) reaches the caller as the configuration error outcome, status 400
\* with the message of the error, and never as the 404 of data absence.
C17_ConfigurationErrorSurfaced ==
    (Answered /\ answered.raised \cap ConfigurationErrors # {})
    => /\ answered.status = 400
       /\ answered.detail \in answered.raised

\* the store of the location nearest to the point of the answered request
NearestStore ==
    cache[_find_nearest_location(self, answered.request.lat,
                                 answered.request.lon)]

\* the values of the required parameters on the date D alone
ValuesOn(required_params, D) ==
    [p \in {required_params[i] : i \in 1..Len(required_params)} |->
        FInt(NearestStore.parameters[p][D])]

\* C25: in daily analysis the score reported for a date D is computed from
\* the parameter values of D itself: every required parameter has a reading
\* on D, and the score is the vibe score of those readings.
C25_DailyScoresOwnDate ==
    (/\ answered.route = "when"
     /\ answered.request.analysis_type = "daily"
     /\ answered.status = 200)
    => LET required_params ==
               get_required_parameters(vibe_engine, answered.request.vibe).ids
       IN  \A k \in 1..Len(answered.scores) :
              LET D == answered.scores[k].date
              IN  /\ \A i \in 1..Len(required_params) :
                        /\ required_params[i] \in DOMAIN NearestStore.parameters
                        /\ D \in DOMAIN NearestStore.parameters[required_params[i]]
                  /\ answered.scores[k].score
                        = calculate_vibe_score(vibe_engine, answered.request.vibe,
                                               ValuesOn(required_params, D)).value

----------------------------------------------------------------------------
(* Properties of the aggregation run, checked under SpecPipeline *)

\* the run has ended, by returning or by an exception
RunEnded == pipeline.pc \in {"done", "raised"}

\* a raw file the aggregation can read: JSON with properties.parameter and at
\* least one dated reading
Readable(data) ==
    /\ data.json /\ data.has_parameter
    /\ \E p \in DOMAIN data.parameter : DOMAIN data.parameter[p] # {}

\* C18: a corrupt raw file (not JSON, no properties.parameter, or an empty
\* daily table) is skipped: when the run has ended, every readable file of
\* every area has its monthly table written, and every area with a readable
\* file its combined summary.
C18_CorruptFileSkipped ==
    RunEnded
    => \A i \in 1..Len(disk) :
          \A j \in 1..Len(disk[i].files) :
             Readable(disk[i].files[j])
             => /\ <<disk[i].name, j>> \in pipeline.written
                /\ disk[i].name \in pipeline.summaries

----------------------------------------------------------------------------
(* Properties of concurrent first accesses, checked under SpecRace *)

\* the complete merge of all the files of an indexed location
CompleteMerge(location_name) ==
    _load_location_data_uncached(
        [disk |-> disk, locations_cache |-> locations_cache, cache |-> EmptyMap],
        location_name).ret

\* thread t came back from _load_location_data with a store
Obtained(t) ==
    threads[t].pc = "returned" /\ threads[t].ret # NoneStore

\* C19: under any interleaving of concurrent first accesses, every store in
\* the cache and every store a request obtains is the complete merge of all
\* the files of its location, and an entry in the cache keeps its contents.
C19_CompleteAndImmutable ==
    /\ [](/\ \A l \in DOMAIN cache : cache[l] = CompleteMerge(l)
          /\ \A t \in DOMAIN threads :
                Obtained(t) => threads[t].ret = CompleteMerge(threads[t].location_name))
    /\ [][\A l \in DOMAIN cache : l \in DOMAIN cache' /\ cache'[l] = cache[l]]_vars

\* two requests raced on the first access of one location of two files: both
\* opened every file, both obtained the store now in the cache
C19_Witness ==
    /\ DOMAIN threads = Workers
    /\ \A t \in Workers :
          /\ Obtained(t)
          /\ threads[t].location_name = DirNames[1]
          /\ threads[t].opened = 2
          /\ threads[t].ret = cache[DirNames[1]]

----------------------------------------------------------------------------
(* Properties of the monthly record, checked under SpecMonthly *)

\* compute_monthly_statistics returned a monthly table
Computed == pipeline.pc = "computed" /\ ~pipeline.raised

\* the months of the table that has column c
RowsWith(c) == {ym \in DOMAIN pipeline.monthly : c \in DOMAIN pipeline.monthly[ym]}

Cell(ym, c) == pipeline.monthly[ym][c]

\* lo <= x <= hi for a number x
Within(x, lo, hi) == x # NaN /\ FLeq(FInt(lo), x) /\ FLeq(x, FInt(hi))

MildLine(t) == Float(700 * t.den - 100 * Abs(2 * t.num - 43 * t.den), 7 * t.den)

SkyValue(ym, c) ==
    IF c \in DOMAIN pipeline.monthly[ym] THEN Cell(ym, c) ELSE NaN

\* clip(1 - allsky/clearsky, 0, 1) for numbers, clearsky > 0
ClippedCloud(allsky, clearsky) ==
    IF FLeq(clearsky, allsky) THEN FInt(0)
    ELSE IF allsky.num <= 0 THEN FInt(1)
    ELSE FSub(FInt(1), FDiv(allsky, clearsky))

\* C22 as stated: CLOUD_FRACTION is clip(1 - allsky/clearsky, 0, 1), and 0
\* for every month in which the clear-sky value is zero or absent.
C22_AsStated ==
    Computed
    => \A ym \in DOMAIN pipeline.monthly :
          LET allsky == SkyValue(ym, "ALLSKY_SFC_SW_DWN")
              clearsky == SkyValue(ym, "CLRSKY_SFC_SW_DWN")
          IN  IF clearsky = NaN \/ clearsky.num = 0
              THEN Cell(ym, "CLOUD_FRACTION") = FInt(0)
              ELSE allsky # NaN
                   => Cell(ym, "CLOUD_FRACTION") = ClippedCloud(allsky, clearsky)

\* C22: CLOUD_FRACTION is clip(1 - allsky/clearsky, 0, 1) for a month with an
\* all-sky value and a clear-sky value other than zero, and NaN for every
\* other month: clear-sky zero, a value absent, a column absent.
C22_CloudFractionOrNaN ==
    Computed
    => \A ym \in DOMAIN pipeline.monthly :
          LET allsky == SkyValue(ym, "ALLSKY_SFC_SW_DWN")
              clearsky == SkyValue(ym, "CLRSKY_SFC_SW_DWN")
          IN  IF allsky = NaN \/ clearsky = NaN \/ clearsky.num = 0
              THEN Cell(ym, "CLOUD_FRACTION") = NaN
              ELSE Cell(ym, "CLOUD_FRACTION") = ClippedCloud(allsky, clearsky)

\* a month with an all-sky value and clear-sky 0, whose CLOUD_FRACTION is NaN
C22_Witness ==
    /\ Computed
    /\ \E ym \in DOMAIN pipeline.monthly :
          /\ SkyValue(ym, "ALLSKY_SFC_SW_DWN") = FInt(2)
          /\ SkyValue(ym, "CLRSKY_SFC_SW_DWN") = FInt(0)
          /\ Cell(ym, "CLOUD_FRACTION") = NaN

\* clip((1 - cloudFraction) * (1 - humidity/100), 0, 1) * 100
Clarity(cloud_fraction, humidity) ==
    FMul(np_clip(FMul(FSub(FInt(1), cloud_fraction),
                      FSub(FInt(1), FDiv(humidity, FInt(100)))),
                 FInt(0), FInt(1)),
         FInt(100))

====
